---- MODULE Spec2Model ----
(***************************************************************************)
(* olap-client-py: the schema model (olap_client/models.py,                *)
(* olap_client/tesseract/schema.py), the Query builder                     *)
(* (olap_client/query.py) and the LogicLayer URL serializer                *)
(* (olap_client/tesseract/query.py).                                       *)
(*                                                                         *)
(* A Python str is an atom (a TLA+ string) while it is stored, and the     *)
(* sequence of its code points (Chars) wherever the program compares,      *)
(* sorts, joins, formats or url-encodes it.                                *)
(***************************************************************************)
EXTENDS Integers, Sequences, FiniteSets, TLC

VARIABLES doc, cube, queries, heap, calls, steps, last

vars == <<doc, cube, queries, heap, calls, steps, last>>

-----------------------------------------------------------------------------
(* Python values *)

\* Python's None where a str is expected
None == "None"

\* an attribute that was never assigned (dataclass field with init=False)
Unset == [unset |-> TRUE]

\* the value slot of an operation that raised
NoVal == [noval |-> TRUE]

\* code points of every str the model uses
Chars ==
    "" :> <<>>   @@
    "None" :> <<78, 111, 110, 101>>   @@
    "Year" :> <<89, 101, 97, 114>>   @@
    "Exporter" :> <<69, 120, 112, 111, 114, 116, 101, 114>>   @@
    "Importer" :> <<73, 109, 112, 111, 114, 116, 101, 114>>   @@
    "Geo" :> <<71, 101, 111>>   @@
    "Continent" :> <<67, 111, 110, 116, 105, 110, 101, 110, 116>>   @@
    "Country" :> <<67, 111, 117, 110, 116, 114, 121>>   @@
    "Exporter Continent" :> <<69, 120, 112, 111, 114, 116, 101, 114, 32, 67, 111, 110, 116, 105, 110, 101, 110, 116>>   @@
    "Exporter Country" :> <<69, 120, 112, 111, 114, 116, 101, 114, 32, 67, 111, 117, 110, 116, 114, 121>>   @@
    "Importer Continent" :> <<73, 109, 112, 111, 114, 116, 101, 114, 32, 67, 111, 110, 116, 105, 110, 101, 110, 116>>   @@
    "Importer Country" :> <<73, 109, 112, 111, 114, 116, 101, 114, 32, 67, 111, 117, 110, 116, 114, 121>>   @@
    "ISO 2" :> <<73, 83, 79, 32, 50>>   @@
    "Exporter Country ISO 2" :> <<69, 120, 112, 111, 114, 116, 101, 114, 32, 67, 111, 117, 110, 116, 114, 121, 32, 73, 83, 79, 32, 50>>   @@
    "Importer Country ISO 2" :> <<73, 109, 112, 111, 114, 116, 101, 114, 32, 67, 111, 117, 110, 116, 114, 121, 32, 73, 83, 79, 32, 50>>   @@
    "Site" :> <<83, 105, 116, 101>>   @@
    "Trade" :> <<84, 114, 97, 100, 101>>   @@
    "Trade Value" :> <<84, 114, 97, 100, 101, 32, 86, 97, 108, 117, 101>>   @@
    "Quantity" :> <<81, 117, 97, 110, 116, 105, 116, 121>>   @@
    "invalid_name" :> <<105, 110, 118, 97, 108, 105, 100, 95, 110, 97, 109, 101>>   @@
    "trade_i_baci_a_92" :> <<116, 114, 97, 100, 101, 95, 105, 95, 98, 97, 99, 105, 95, 97, 95, 57, 50>>   @@
    "trade_i_baci_a_17" :> <<116, 114, 97, 100, 101, 95, 105, 95, 98, 97, 99, 105, 95, 97, 95, 49, 55>>   @@
    "cube" :> <<99, 117, 98, 101>>   @@
    "measures" :> <<109, 101, 97, 115, 117, 114, 101, 115>>   @@
    "drilldowns" :> <<100, 114, 105, 108, 108, 100, 111, 119, 110, 115>>   @@
    "properties" :> <<112, 114, 111, 112, 101, 114, 116, 105, 101, 115>>   @@
    "filters" :> <<102, 105, 108, 116, 101, 114, 115>>   @@
    "exclude" :> <<101, 120, 99, 108, 117, 100, 101>>   @@
    "locale" :> <<108, 111, 99, 97, 108, 101>>   @@
    "limit" :> <<108, 105, 109, 105, 116>>   @@
    "sort" :> <<115, 111, 114, 116>>   @@
    "time" :> <<116, 105, 109, 101>>   @@
    "growth" :> <<103, 114, 111, 119, 116, 104>>   @@
    "rca" :> <<114, 99, 97>>   @@
    "top" :> <<116, 111, 112>>   @@
    "topk" :> <<116, 111, 112, 107>>   @@
    "rate" :> <<114, 97, 116, 101>>   @@
    "debug" :> <<100, 101, 98, 117, 103>>   @@
    "exclude_default_members" :> <<101, 120, 99, 108, 117, 100, 101, 95, 100, 101, 102, 97, 117, 108, 116, 95, 109, 101, 109, 98, 101, 114, 115>>   @@
    "parents" :> <<112, 97, 114, 101, 110, 116, 115>>   @@
    "sparse" :> <<115, 112, 97, 114, 115, 101>>   @@
    "true" :> <<116, 114, 117, 101>>   @@
    "gt" :> <<103, 116>>   @@
    "gte" :> <<103, 116, 101>>   @@
    "lt" :> <<108, 116>>   @@
    "lte" :> <<108, 116, 101>>   @@
    "eq" :> <<101, 113>>   @@
    "neq" :> <<110, 101, 113>>   @@
    "and" :> <<97, 110, 100>>   @@
    "or" :> <<111, 114>>   @@
    "asc" :> <<97, 115, 99>>   @@
    "desc" :> <<100, 101, 115, 99>>   @@
    "csv" :> <<99, 115, 118>>   @@
    "jsonarrays" :> <<106, 115, 111, 110, 97, 114, 114, 97, 121, 115>>   @@
    "jsonrecords" :> <<106, 115, 111, 110, 114, 101, 99, 111, 114, 100, 115>>   @@
    "es" :> <<101, 115>>   @@
    "en" :> <<101, 110>>   @@
    "2019" :> <<50, 48, 49, 57>>   @@
    "2020" :> <<50, 48, 50, 48>>   @@
    "week" :> <<119, 101, 101, 107>>   @@
    "oldest" :> <<111, 108, 100, 101, 115, 116>>   @@
    "false" :> <<102, 97, 108, 115, 101>>   @@
    "data." :> <<100, 97, 116, 97, 46>>   @@
    "sum" :> <<115, 117, 109>>   @@
    "avg" :> <<97, 118, 103>>

RECURSIVE LexLess(_, _)
\* str.__lt__: lexicographic order on code points
LexLess(a, b) ==
    IF b = <<>> THEN FALSE
    ELSE IF a = <<>> THEN TRUE
    ELSE IF Head(a) # Head(b) THEN Head(a) < Head(b)
    ELSE LexLess(Tail(a), Tail(b))

RECURSIVE InsertSorted(_, _)
InsertSorted(x, s) ==
    IF s = <<>> THEN <<x>>
    ELSE IF LexLess(x, Head(s)) THEN <<x>> \o s
    ELSE <<Head(s)>> \o InsertSorted(x, Tail(s))

RECURSIVE sorted(_)
\* sorted(list_of_str)
sorted(s) == IF s = <<>> THEN <<>> ELSE InsertSorted(Head(s), sorted(Tail(s)))

RECURSIVE SetToSeq(_)
\* some enumeration of a finite set
SetToSeq(S) ==
    IF S = {} THEN <<>>
    ELSE LET x == CHOOSE y \in S : TRUE IN <<x>> \o SetToSeq(S \ {x})

RECURSIVE join(_, _)
\* sep.join(items)
join(sep, items) ==
    IF items = <<>> THEN <<>>
    ELSE IF Len(items) = 1 THEN Head(items)
    ELSE Head(items) \o sep \o join(sep, Tail(items))

RECURSIVE Flatten(_)
Flatten(ss) == IF ss = <<>> THEN <<>> ELSE Head(ss) \o Flatten(Tail(ss))

\* the elements of a sequence
Range(s) == {s[i] : i \in DOMAIN s}

Comma == <<44>>
Dot == <<46>>

RECURSIVE FormatInt(_)
\* "{:d}".format(n)
FormatInt(n) ==
    IF n < 0 THEN <<45>> \o FormatInt(0 - n)
    ELSE IF n < 10 THEN <<48 + n>>
    ELSE FormatInt(n \div 10) \o <<48 + (n % 10)>>

-----------------------------------------------------------------------------
(* Metadata documents: the parsed schema JSON a cube is built from *)

YearDim ==
    [name |-> "Year", hierarchies |-> <<
        [name |-> "Year", levels |-> <<
            [name |-> "Year", unique_name |-> None, properties |-> <<>>] >>] >>]

ExporterDim ==
    [name |-> "Exporter", hierarchies |-> <<
        [name |-> "Geo", levels |-> <<
            [name |-> "Continent", unique_name |-> "Exporter Continent",
             properties |-> <<>>],
            [name |-> "Country", unique_name |-> "Exporter Country",
             properties |-> <<[name |-> "ISO 2",
                               unique_name |-> "Exporter Country ISO 2"]>>] >>] >>]

ImporterDim ==
    [name |-> "Importer", hierarchies |-> <<
        [name |-> "Geo", levels |-> <<
            [name |-> "Continent", unique_name |-> "Importer Continent",
             properties |-> <<>>],
            [name |-> "Country", unique_name |-> "Importer Country",
             properties |-> <<[name |-> "ISO 2",
                               unique_name |-> "Importer Country ISO 2"]>>] >>] >>]

TradeValueDoc == [name |-> "Trade Value", aggregator |-> [name |-> "sum"]]
QuantityDoc == [name |-> "Quantity", aggregator |-> [name |-> "avg"]]

Doc92 ==
    [name |-> "trade_i_baci_a_92",
     dimensions |-> <<YearDim, ExporterDim, ImporterDim>>,
     measures |-> <<TradeValueDoc, QuantityDoc>>]

Doc17 ==
    [name |-> "trade_i_baci_a_17",
     dimensions |-> <<ImporterDim, YearDim>>,
     measures |-> <<QuantityDoc>>]

Docs == {Doc92, Doc17}

\* a dimension whose level has the name of a fixed parameter of the URL
SiteDim ==
    [name |-> "Site", hierarchies |-> <<
        [name |-> "Site", levels |-> <<
            [name |-> "locale", unique_name |-> None, properties |-> <<>>] >>] >>]

DocSite ==
    [name |-> "trade_i_baci_a_92",
     dimensions |-> <<YearDim, SiteDim>>,
     measures |-> <<TradeValueDoc, QuantityDoc>>]

-----------------------------------------------------------------------------
(* Schema model: olap_client/models.py, olap_client/tesseract/schema.py *)

\* TesseractProperty: name, unique_name and the three stamped ancestors
TesseractProperty(propty) ==
    [name |-> propty.name, unique_name |-> propty.unique_name,
     dimension |-> propty.dimension, hierarchy |-> propty.hierarchy,
     level |-> propty.level]

\* Level.inyect_parents (root validator, pre)
Level_inyect_parents(level) ==
    LET props == level.properties IN
    [name |-> level.name, unique_name |-> level.unique_name,
     dimension |-> level.dimension, hierarchy |-> level.hierarchy,
     depth |-> level.depth,
     properties |-> [i \in DOMAIN props |->
        [name |-> props[i].name, unique_name |-> props[i].unique_name,
         dimension |-> level.dimension, hierarchy |-> level.hierarchy,
         level |-> level.name]]]

\* TesseractLevel: the declared fields only (a document's unique_name is an
\* undeclared key, which pydantic ignores)
TesseractLevel(raw) ==
    LET level == Level_inyect_parents(raw) IN
    [name |-> level.name, dimension |-> level.dimension,
     hierarchy |-> level.hierarchy, depth |-> level.depth,
     properties |-> [i \in DOMAIN level.properties |->
                        TesseractProperty(level.properties[i])]]

\* Hierarchy.inyect_parents (root validator, pre)
Hierarchy_inyect_parents(hierarchy) ==
    LET lvls == hierarchy.levels IN
    [name |-> hierarchy.name, dimension |-> hierarchy.dimension,
     levels |-> [i \in DOMAIN lvls |->
        [name |-> lvls[i].name, unique_name |-> lvls[i].unique_name,
         properties |-> lvls[i].properties,
         dimension |-> hierarchy.dimension, hierarchy |-> hierarchy.name]]]

\* a depth counted from 0, as enumerate(levels) without a start would give
inyect_level_depth_from_zero(levels) ==
    [index \in DOMAIN levels |->
        [name |-> levels[index].name, unique_name |-> levels[index].unique_name,
         properties |-> levels[index].properties,
         dimension |-> levels[index].dimension,
         hierarchy |-> levels[index].hierarchy, depth |-> index - 1]]

\* TesseractHierarchy.inyect_level_depth (validator on levels, pre)
inyect_level_depth(levels) ==
    [index \in DOMAIN levels |->
        [name |-> levels[index].name, unique_name |-> levels[index].unique_name,
         properties |-> levels[index].properties,
         dimension |-> levels[index].dimension,
         hierarchy |-> levels[index].hierarchy, depth |-> index]]

TesseractHierarchy(raw) ==
    LET hierarchy == Hierarchy_inyect_parents(raw)
        lvls == inyect_level_depth(hierarchy.levels) IN
    [name |-> hierarchy.name, dimension |-> hierarchy.dimension,
     levels |-> [i \in DOMAIN lvls |-> TesseractLevel(lvls[i])]]

\* Dimension.inyect_parents (root validator, pre)
Dimension_inyect_parents(dimension) ==
    LET hies == dimension.hierarchies IN
    [name |-> dimension.name,
     hierarchies |-> [i \in DOMAIN hies |->
        [name |-> hies[i].name, levels |-> hies[i].levels,
         dimension |-> dimension.name]]]

TesseractDimension(raw) ==
    LET dimension == Dimension_inyect_parents(raw) IN
    [name |-> dimension.name,
     hierarchies |-> [i \in DOMAIN dimension.hierarchies |->
                        TesseractHierarchy(dimension.hierarchies[i])]]

\* TesseractMeasure.map_aggregator_type
TesseractMeasure(measure) ==
    [name |-> measure.name, aggregator_name |-> measure.aggregator.name]

TesseractCube(raw) ==
    [name |-> raw.name,
     dimensions |-> [i \in DOMAIN raw.dimensions |->
                        TesseractDimension(raw.dimensions[i])],
     measures |-> [i \in DOMAIN raw.measures |->
                        TesseractMeasure(raw.measures[i])]]

\* a query built on something that is not a Cube
NotACube == [name |-> None, dimensions |-> <<>>, measures |-> <<>>,
             notacube |-> TRUE]

\* isinstance(x, Cube)
IsCube(x) == "notacube" \notin DOMAIN x

\* Cube.hierarchies
hierarchies(c) == Flatten([i \in DOMAIN c.dimensions |-> c.dimensions[i].hierarchies])

\* Cube.levels
levels(c) ==
    LET hs == hierarchies(c) IN Flatten([i \in DOMAIN hs |-> hs[i].levels])

\* Cube.properties
properties(c) ==
    LET ls == levels(c) IN Flatten([i \in DOMAIN ls |-> ls[i].properties])

\* Level.matches, Property.matches
matches(item, name) == item.name = name

\* next(generator) with no default, as the lookups call it
next_or_None(items) ==
    IF items = <<>> THEN [exc |-> "", val |-> Unset]
    ELSE [exc |-> "", val |-> Head(items)]

next(items) ==
    IF items = <<>> THEN [exc |-> "StopIteration", val |-> NoVal]
    ELSE [exc |-> "", val |-> Head(items)]

\* Cube.get_dimension
get_dimension(c, name) ==
    next(SelectSeq(c.dimensions, LAMBDA item : item.name = name))

\* Cube.get_hierarchy
get_hierarchy(c, name) ==
    next(SelectSeq(hierarchies(c), LAMBDA item : item.name = name))

\* Cube.get_level
get_level(c, name) ==
    next(SelectSeq(levels(c), LAMBDA item : matches(item, name)))

\* Cube.get_measure
get_measure(c, name) ==
    next(SelectSeq(c.measures, LAMBDA item : item.name = name))

\* Cube.get_property
get_property(c, name) ==
    next(SelectSeq(properties(c), LAMBDA item : matches(item, name)))

-----------------------------------------------------------------------------
(* Python containers *)

\* dict / defaultdict: the items in insertion order
DictKeys(d) == {d[i].key : i \in DOMAIN d}

DictIndex(d, k) == CHOOSE i \in DOMAIN d : d[i].key = k

DictGet(d, k) == d[DictIndex(d, k)].val

\* d[k] = v: a new key goes last, an old key keeps its place
DictSet(d, k, v) ==
    IF k \in DictKeys(d) THEN [d EXCEPT ![DictIndex(d, k)].val = v]
    ELSE Append(d, [key |-> k, val |-> v])

\* list(d.values())
DictValues(d) == [i \in DOMAIN d |-> d[i].val]

\* defaultdict.__getitem__: the stored item, or a new one from the factory
\* (which is then stored under the key)
defaultdict_getitem(d, k, default) ==
    IF k \in DictKeys(d) THEN [val |-> DictGet(d, k), dict |-> d]
    ELSE [val |-> default, dict |-> Append(d, [key |-> k, val |-> default])]

\* a dict.get that stored the default, as defaultdict.__getitem__ does
dict_get_storing(d, k) ==
    IF k \in DictKeys(d) THEN [found |-> TRUE, val |-> DictGet(d, k), dict |-> d]
    ELSE [found |-> TRUE, val |-> FALSE,
          dict |-> Append(d, [key |-> k, val |-> FALSE])]

\* dict.get(k): the stored item or None; never stores anything
dict_get(d, k) ==
    IF k \in DictKeys(d) THEN [found |-> TRUE, val |-> DictGet(d, k), dict |-> d]
    ELSE [found |-> FALSE, val |-> FALSE, dict |-> d]

\* a set of str is kept as its iteration order, which depends on the hashes:
\* a new element may land anywhere among the old ones
InsertAt(s, i, x) == SubSeq(s, 1, i) \o <<x>> \o SubSeq(s, i + 1, Len(s))

set_add(s, x) ==
    IF x \in Range(s) THEN {s} ELSE {InsertAt(s, i, x) : i \in 0..Len(s)}

RECURSIVE set_update(_, _)
\* set.update(items): the possible iteration orders afterwards
set_update(s, items) ==
    IF items = <<>> THEN {s}
    ELSE UNION {set_update(t, Tail(items)) : t \in set_add(s, Head(items))}

-----------------------------------------------------------------------------
(* Query objects: olap_client/query.py *)

QIds == {1, 2}

\* container objects live in the heap: slot q belongs to instance q, slot 0
\* to the class
Slots == {0} \cup QIds

Unallocated == [class |-> "unallocated"]

Allocated(q) == queries[q].class # "unallocated"

\* Cut() / TesseractCut(): level has no default, members = set()
NewCut == [level |-> Unset, members |-> <<>>,
           is_exclusive |-> FALSE, is_for_match |-> FALSE]

\* Drilldown() / TesseractDrilldown()
NewDrilldown == [level |-> Unset, properties |-> {}, caption |-> Unset]

\* Filter() / TesseractFilter(): value and constraint1 have no default
NewFilter == [value |-> Unset, constraint1 |-> <<>>, joint |-> None,
              constraint2 |-> <<>>]

EmptyHeap ==
    [calculations |-> [s \in Slots |-> <<>>],
     cuts |-> [s \in Slots |-> <<>>],
     drilldowns |-> [s \in Slots |-> <<>>],
     filters |-> [s \in Slots |-> <<>>],
     measures |-> [s \in Slots |-> {}],
     options |-> [s \in Slots |-> <<>>]]

\* a container a class attribute would hold: one object for all instances
SharedRef(q) == 0

\* list(), set(), defaultdict(...) evaluated in __init__: a new object each time
NewRef(q) == q

\* Query.__init__
Query_init(q, c) ==
    [class |-> "Query", cube |-> c,
     calculations |-> NewRef(q), cuts |-> NewRef(q), drilldowns |-> NewRef(q),
     filters |-> NewRef(q), measures |-> NewRef(q), options |-> NewRef(q),
     locale |-> None, pagination |-> <<0, 0>>, sorting |-> <<None, "desc">>,
     time |-> <<None, None>>, extension |-> "jsonrecords"]

\* TesseractQuery.__init__: super().__init__, then new cuts, drilldowns, filters
TesseractQuery_init(q, c) ==
    [Query_init(q, c) EXCEPT !.class = "TesseractQuery", !.cuts = NewRef(q),
                             !.drilldowns = NewRef(q), !.filters = NewRef(q)]

\* the heap after an __init__ that made self: every container self refers
\* to is empty
HeapAfterInit(self) ==
    [heap EXCEPT !.calculations[self.calculations] = <<>>,
                 !.cuts[self.cuts] = <<>>,
                 !.drilldowns[self.drilldowns] = <<>>,
                 !.filters[self.filters] = <<>>,
                 !.measures[self.measures] = {},
                 !.options[self.options] = <<>>]

\* the query as its attributes read
Deref(self, h) ==
    [class |-> self.class, cube |-> self.cube,
     calculations |-> h.calculations[self.calculations],
     cuts |-> h.cuts[self.cuts],
     drilldowns |-> h.drilldowns[self.drilldowns],
     filters |-> h.filters[self.filters],
     measures |-> h.measures[self.measures],
     options |-> h.options[self.options],
     locale |-> self.locale, pagination |-> self.pagination,
     sorting |-> self.sorting, time |-> self.time,
     extension |-> self.extension]

Q(q) == Deref(queries[q], heap)

\* self.cube.<lookup>(...) : the cube must have the method
CubeLookup(c, r) ==
    IF IsCube(c) THEN r ELSE [exc |-> "AttributeError", val |-> NoVal]

\* what every operation leaves behind: the operation, its arguments, the
\* exception it raised ("" for none) and the value it returned
Outcome(op, q, args, exc, val) ==
    [op |-> op, q |-> q, args |-> args, exc |-> exc, val |-> val,
     streak |-> IF last.op = op /\ last.q = q /\ last.args = args
                THEN 2 ELSE 1]

\* a builder call was made on q
Called(q, call, exc) ==
    /\ steps' = steps + 1
    /\ calls' = [calls EXCEPT ![q] = @ \cup {call}]
    /\ last' = Outcome(call.op, q, call, exc, NoVal)

-----------------------------------------------------------------------------
(* Builder operations: olap_client/query.py *)

\* an optional bool argument: "None" when omitted
ArgBool(arg, old) == IF arg = "None" THEN old ELSE arg = "True"

\* the key a Cut or a Drilldown is stored under, if keyed by level
key_by_level(level) == level.name

\* the key a Cut or a Drilldown is stored under
slot_key(level) == level.dimension

\* Query.add_calculation
add_calculation(q, calc) ==
    /\ Allocated(q)
    /\ LET self == queries[q] IN
        /\ heap' = [heap EXCEPT !.calculations[self.calculations] = Append(@, calc)]
        /\ Called(q, [op |-> "add_calculation", calc |-> calc], "")
    /\ UNCHANGED <<doc, cube, queries>>

\* Query.add_measure
add_measure(q, measure_name) ==
    /\ Allocated(q)
    /\ LET self == queries[q]
           r == CubeLookup(self.cube, get_measure(self.cube, measure_name)) IN
        /\ heap' = IF r.exc # "" THEN heap
                   ELSE [heap EXCEPT !.measures[self.measures] = @ \cup {r.val}]
        /\ Called(q, [op |-> "add_measure", measure_name |-> measure_name], r.exc)
    /\ UNCHANGED <<doc, cube, queries>>

\* Query.set_cut
set_cut(q, level_name, members, is_exclusive, is_for_match) ==
    /\ Allocated(q)
    /\ LET self == queries[q]
           call == [op |-> "set_cut", level_name |-> level_name,
                    members |-> members, is_exclusive |-> is_exclusive,
                    is_for_match |-> is_for_match]
           r == CubeLookup(self.cube, get_level(self.cube, level_name)) IN
        IF r.exc # "" THEN heap' = heap /\ Called(q, call, r.exc)
        ELSE LET level == r.val
                 got == defaultdict_getitem(heap.cuts[self.cuts],
                                            slot_key(level), NewCut)
                 cut == got.val
             IN \E order \in (IF Len(members) > 0
                              THEN set_update(cut.members, members)
                              ELSE {cut.members}) :
                 /\ heap' = [heap EXCEPT !.cuts[self.cuts] =
                        DictSet(got.dict, slot_key(level),
                            [level |-> level,
                             members |-> order,
                             is_exclusive |-> ArgBool(is_exclusive, cut.is_exclusive),
                             is_for_match |-> ArgBool(is_for_match, cut.is_for_match)])]
                 /\ Called(q, call, "")
    /\ UNCHANGED <<doc, cube, queries>>

\* a set_drilldown that stored a new Drilldown for the dimension
set_drilldown_anew(q, level_name) ==
    /\ Allocated(q)
    /\ LET self == queries[q]
           call == [op |-> "set_drilldown", level_name |-> level_name]
           r == CubeLookup(self.cube, get_level(self.cube, level_name)) IN
        IF r.exc # "" THEN heap' = heap /\ Called(q, call, r.exc)
        ELSE LET level == r.val
             IN /\ heap' = [heap EXCEPT !.drilldowns[self.drilldowns] =
                        DictSet(@, slot_key(level),
                                [NewDrilldown EXCEPT !.level = level])]
                /\ Called(q, call, "")
    /\ UNCHANGED <<doc, cube, queries>>

\* Query.set_drilldown
set_drilldown(q, level_name) ==
    /\ Allocated(q)
    /\ LET self == queries[q]
           call == [op |-> "set_drilldown", level_name |-> level_name]
           r == CubeLookup(self.cube, get_level(self.cube, level_name)) IN
        IF r.exc # "" THEN heap' = heap /\ Called(q, call, r.exc)
        ELSE LET level == r.val
                 got == defaultdict_getitem(heap.drilldowns[self.drilldowns],
                                            slot_key(level), NewDrilldown)
             IN /\ heap' = [heap EXCEPT !.drilldowns[self.drilldowns] =
                        DictSet(got.dict, slot_key(level),
                                [got.val EXCEPT !.level = level])]
                /\ Called(q, call, "")
    /\ UNCHANGED <<doc, cube, queries>>

\* Query.set_caption
set_caption(q, property_name) ==
    /\ Allocated(q)
    /\ LET self == queries[q]
           call == [op |-> "set_caption", property_name |-> property_name]
           r == CubeLookup(self.cube, get_property(self.cube, property_name)) IN
        IF r.exc # "" THEN heap' = heap /\ Called(q, call, r.exc)
        ELSE LET propty == r.val
                 got == defaultdict_getitem(heap.drilldowns[self.drilldowns],
                                            propty.dimension, NewDrilldown)
             IN /\ heap' = [heap EXCEPT !.drilldowns[self.drilldowns] =
                        DictSet(got.dict, propty.dimension,
                                [got.val EXCEPT !.caption = propty])]
                /\ Called(q, call, "")
    /\ UNCHANGED <<doc, cube, queries>>

\* Query.set_property
set_property(q, property_name) ==
    /\ Allocated(q)
    /\ LET self == queries[q]
           call == [op |-> "set_property", property_name |-> property_name]
           r == CubeLookup(self.cube, get_property(self.cube, property_name)) IN
        IF r.exc # "" THEN heap' = heap /\ Called(q, call, r.exc)
        ELSE LET propty == r.val
                 got == defaultdict_getitem(heap.drilldowns[self.drilldowns],
                                            propty.dimension, NewDrilldown)
             IN /\ heap' = [heap EXCEPT !.drilldowns[self.drilldowns] =
                        DictSet(got.dict, propty.dimension,
                                [got.val EXCEPT !.properties = @ \cup {propty}])]
                /\ Called(q, call, "")
    /\ UNCHANGED <<doc, cube, queries>>

\* Query.set_extension
set_extension(q, extension) ==
    /\ Allocated(q)
    /\ queries' = [queries EXCEPT ![q].extension = extension]
    /\ Called(q, [op |-> "set_extension", extension |-> extension], "")
    /\ UNCHANGED <<doc, cube, heap>>

\* a set_filter that kept the old joint and constraint2 when they are omitted
set_filter_keep_omitted(q, value_ref, condition1, joint, condition2) ==
    /\ Allocated(q)
    /\ LET self == queries[q]
           call == [op |-> "set_filter", value_ref |-> value_ref,
                    condition1 |-> condition1, joint |-> joint,
                    condition2 |-> condition2] IN
        IF ~IsCube(self.cube)
        THEN heap' = heap /\ Called(q, call, "AttributeError")
        ELSE LET found == SelectSeq(self.cube.measures,
                                    LAMBDA item : item.name = value_ref)
                 key == IF found # <<>> THEN Head(found).name ELSE value_ref
                 got == defaultdict_getitem(heap.filters[self.filters], key, NewFilter)
             IN /\ heap' = [heap EXCEPT !.filters[self.filters] =
                        DictSet(got.dict, key,
                            [value |-> IF found # <<>>
                                       THEN [measure |-> Head(found)]
                                       ELSE [str |-> value_ref],
                             constraint1 |-> condition1,
                             joint |-> IF joint = None THEN got.val.joint ELSE joint,
                             constraint2 |-> IF condition2 = <<>>
                                             THEN got.val.constraint2
                                             ELSE condition2])]
                /\ Called(q, call, "")
    /\ UNCHANGED <<doc, cube, queries>>

\* Query.set_filter
set_filter(q, value_ref, condition1, joint, condition2) ==
    /\ Allocated(q)
    /\ LET self == queries[q]
           call == [op |-> "set_filter", value_ref |-> value_ref,
                    condition1 |-> condition1, joint |-> joint,
                    condition2 |-> condition2] IN
        IF ~IsCube(self.cube)
        THEN heap' = heap /\ Called(q, call, "AttributeError")
        ELSE LET found == SelectSeq(self.cube.measures,
                                    LAMBDA item : item.name = value_ref)
                 key == IF found # <<>> THEN Head(found).name ELSE value_ref
                 got == defaultdict_getitem(heap.filters[self.filters], key, NewFilter)
             IN /\ heap' = [heap EXCEPT !.filters[self.filters] =
                        DictSet(got.dict, key,
                            [value |-> IF found # <<>>
                                       THEN [measure |-> Head(found)]
                                       ELSE [str |-> value_ref],
                             constraint1 |-> condition1,
                             joint |-> joint,
                             constraint2 |-> condition2])]
                /\ Called(q, call, "")
    /\ UNCHANGED <<doc, cube, queries>>

\* Query.set_locale
set_locale(q, locale) ==
    /\ Allocated(q)
    /\ queries' = [queries EXCEPT ![q].locale = locale]
    /\ Called(q, [op |-> "set_locale", locale |-> locale], "")
    /\ UNCHANGED <<doc, cube, heap>>

\* Query.set_option
set_option(q, prop, value) ==
    /\ Allocated(q)
    /\ heap' = [heap EXCEPT !.options[queries[q].options] = DictSet(@, prop, value)]
    /\ Called(q, [op |-> "set_option", prop |-> prop, value |-> value], "")
    /\ UNCHANGED <<doc, cube, queries>>

\* Query.set_pagination
set_pagination(q, page, offset) ==
    /\ Allocated(q)
    /\ queries' = [queries EXCEPT ![q].pagination = <<page, offset>>]
    /\ Called(q, [op |-> "set_pagination", page |-> page, offset |-> offset], "")
    /\ UNCHANGED <<doc, cube, heap>>

\* a set_sorting that stored the key it was given before looking it up
set_sorting_as_given(q, sort_key, order) ==
    /\ Allocated(q)
    /\ LET self == queries[q]
           r == CubeLookup(self.cube, get_measure(self.cube, sort_key)) IN
        /\ queries' = [queries EXCEPT ![q].sorting = <<sort_key, order>>]
        /\ Called(q, [op |-> "set_sorting", sort_key |-> sort_key, order |-> order],
                  r.exc)
    /\ UNCHANGED <<doc, cube, heap>>

\* Query.set_sorting
set_sorting(q, sort_key, order) ==
    /\ Allocated(q)
    /\ LET self == queries[q]
           r == CubeLookup(self.cube, get_measure(self.cube, sort_key)) IN
        /\ queries' = IF r.exc # "" THEN queries
                      ELSE [queries EXCEPT ![q].sorting = <<r.val.name, order>>]
        /\ Called(q, [op |-> "set_sorting", sort_key |-> sort_key, order |-> order],
                  r.exc)
    /\ UNCHANGED <<doc, cube, heap>>

\* a set_time that stored the pair as given
set_time_as_given(q, precision, value) ==
    /\ Allocated(q)
    /\ queries' = [queries EXCEPT ![q].time = <<precision, value>>]
    /\ Called(q, [op |-> "set_time", precision |-> precision, time_value |-> value],
              "")
    /\ UNCHANGED <<doc, cube, heap>>

\* Query.set_time
set_time(q, precision, value) ==
    /\ Allocated(q)
    /\ LET new_time == <<precision, value>> IN
        queries' = [queries EXCEPT ![q].time =
                        IF None \notin Range(new_time) THEN new_time
                        ELSE <<None, None>>]
    /\ Called(q, [op |-> "set_time", precision |-> precision, time_value |-> value],
              "")
    /\ UNCHANGED <<doc, cube, heap>>

-----------------------------------------------------------------------------
(* LogicLayer serializer: olap_client/tesseract/query.py *)

Ok(v) == [exc |-> "", val |-> v]

Raise(e) == [exc |-> e, val |-> NoVal]

\* get_unique_name: item.unique_name or item.name
get_unique_name(item) ==
    IF "unique_name" \notin DOMAIN item THEN Raise("AttributeError")
    ELSE Ok(IF item.unique_name \notin {None, ""} THEN item.unique_name
            ELSE item.name)

\* TesseractFilter.value_name
value_name(filtr) ==
    IF "str" \in DOMAIN filtr.value THEN filtr.value.str
    ELSE filtr.value.measure.name

\* TesseractFilter.serialize
serialize(filtr) ==
    LET first == Chars[value_name(filtr)] \o Dot \o Chars[filtr.constraint1[1]]
                 \o Dot \o FormatInt(filtr.constraint1[2]) IN
    IF filtr.joint = None THEN Ok(first)
    ELSE IF filtr.constraint2 = <<>> THEN Raise("TypeError")
    ELSE IF filtr.constraint2[1] = None THEN Ok(first)
    ELSE Ok(first \o Dot \o Chars[filtr.joint] \o Dot
            \o Chars[filtr.constraint2[1]] \o Dot
            \o FormatInt(filtr.constraint2[2]))

\* a filter that kept every value
keep_any_value(value) == TRUE

\* is_valid_value
is_valid_value(value) ==
    IF "list" \in DOMAIN value THEN Len(value.list) > 0
    ELSE IF "set" \in DOMAIN value THEN Cardinality(value.set) > 0
    ELSE IF "str" \in DOMAIN value THEN value.str # <<>>
    ELSE "none" \notin DOMAIN value

\* outcomes of a sequence of steps
AnyRaise(rs) == \E i \in DOMAIN rs : rs[i].exc # ""

FirstRaise(rs) == rs[CHOOSE i \in DOMAIN rs :
                        rs[i].exc # "" /\ \A j \in 1..(i - 1) : rs[j].exc = ""]

Vals(rs) == [i \in DOMAIN rs |-> rs[i].val]

\* lines 192-194: the drilldowns and properties lists
DrilldownNames(query) ==
    LET drils == DictValues(query.drilldowns) IN
    [i \in DOMAIN drils |->
        IF drils[i].level = Unset THEN Raise("AttributeError")
        ELSE get_unique_name(drils[i].level)]

PropertyNames(query) ==
    LET drils == DictValues(query.drilldowns) IN
    Flatten([i \in DOMAIN drils |->
        LET props == SetToSeq(drils[i].properties) IN
        [j \in DOMAIN props |-> get_unique_name(props[j])]])

RECURSIVE AddCuts(_, _)
\* lines 205-209: each cut adds a parameter under its level's name
AddCuts(params, cuts) ==
    IF cuts = <<>> THEN Ok(params)
    ELSE LET cut == Head(cuts)
             level_name == IF cut.level = Unset THEN Raise("AttributeError")
                           ELSE get_unique_name(cut.level) IN
         IF level_name.exc # "" THEN level_name
         ELSE LET key == Chars[level_name.val]
                  members == [i \in DOMAIN cut.members |-> Chars[cut.members[i]]]
                  p1 == DictSet(params, key, [str |-> join(Comma, members)])
                  exclude == DictGet(p1, Chars["exclude"]) IN
              IF ~cut.is_exclusive THEN AddCuts(p1, Tail(cuts))
              ELSE IF "list" \notin DOMAIN exclude THEN Raise("AttributeError")
              ELSE AddCuts(DictSet(p1, Chars["exclude"],
                                   [list |-> Append(exclude.list, key)]),
                           Tail(cuts))

\* limit and sort added the other way round
AddSortLimit(params, query) ==
    LET page == query.pagination[1]
        offset == query.pagination[2]
        p1 == IF query.sorting[1] # None
              THEN DictSet(params, Chars["sort"],
                     [str |-> Chars[query.sorting[1]] \o Dot \o Chars[query.sorting[2]]])
              ELSE params IN
    IF page > 0
    THEN DictSet(p1, Chars["limit"],
                 [str |-> IF offset > 0
                          THEN FormatInt(page) \o Comma \o FormatInt(offset)
                          ELSE FormatInt(page)])
    ELSE p1

\* a limit that always carried the offset
AddLimitWithOffset(params, query) ==
    LET page == query.pagination[1]
        offset == query.pagination[2]
        p1 == IF page > 0
              THEN DictSet(params, Chars["limit"],
                     [str |-> FormatInt(page) \o Comma \o FormatInt(offset)])
              ELSE params IN
    IF query.sorting[1] # None
    THEN DictSet(p1, Chars["sort"],
                 [str |-> Chars[query.sorting[1]] \o Dot \o Chars[query.sorting[2]]])
    ELSE p1

\* lines 211-216: limit and sort
AddLimitSort(params, query) ==
    LET page == query.pagination[1]
        offset == query.pagination[2]
        p1 == IF page > 0
              THEN DictSet(params, Chars["limit"],
                     [str |-> IF offset > 0
                              THEN FormatInt(page) \o Comma \o FormatInt(offset)
                              ELSE FormatInt(page)])
              ELSE params IN
    IF query.sorting[1] # None
    THEN DictSet(p1, Chars["sort"],
                 [str |-> Chars[query.sorting[1]] \o Dot \o Chars[query.sorting[2]]])
    ELSE p1

\* lines 218-219: "{}.{}".join(*query.time) passes two arguments to str.join
AddTime(params, query) ==
    IF query.time[1] # None /\ query.time[2] # None THEN Raise("TypeError")
    ELSE Ok(params)

\* calc.params[key], a level
CalcLevel(calc, key) ==
    IF key \notin DOMAIN calc.params THEN Raise("KeyError")
    ELSE get_unique_name(calc.params[key])

\* calc.params["value"].name
CalcValue(calc) ==
    IF "value" \notin DOMAIN calc.params THEN Raise("KeyError")
    ELSE IF "name" \notin DOMAIN calc.params.value THEN Raise("AttributeError")
    ELSE Ok(calc.params.value.name)

RECURSIVE AddCalculations(_, _)
\* lines 221-241
AddCalculations(params, calcs) ==
    IF calcs = <<>> THEN Ok(params)
    ELSE LET calc == Head(calcs) IN
      IF calc.kind = "growth" THEN
        LET rs == <<CalcLevel(calc, "period"), CalcValue(calc)>> IN
        IF AnyRaise(rs) THEN FirstRaise(rs)
        ELSE AddCalculations(
               DictSet(params, Chars["growth"],
                 [str |-> Chars[rs[1].val] \o Comma \o Chars[rs[2].val]]),
               Tail(calcs))
      ELSE IF calc.kind = "rca" THEN
        LET rs == <<CalcLevel(calc, "location"), CalcLevel(calc, "category"),
                    CalcValue(calc)>> IN
        IF AnyRaise(rs) THEN FirstRaise(rs)
        ELSE AddCalculations(
               DictSet(params, Chars["rca"],
                 [str |-> Chars[rs[1].val] \o Comma \o Chars[rs[2].val]
                          \o Comma \o Chars[rs[3].val]]),
               Tail(calcs))
      ELSE IF calc.kind = "topk" THEN
        LET rs == <<IF "amount" \in DOMAIN calc.params THEN Ok(calc.params.amount)
                    ELSE Raise("KeyError"),
                    CalcLevel(calc, "category"), CalcValue(calc),
                    IF "order" \in DOMAIN calc.params THEN Ok(calc.params.order)
                    ELSE Raise("KeyError")>> IN
        IF AnyRaise(rs) THEN FirstRaise(rs)
        ELSE AddCalculations(
               DictSet(params, Chars["top"],
                 [str |-> FormatInt(rs[1].val) \o Comma \o Chars[rs[2].val]
                          \o Comma \o Chars[rs[3].val] \o Comma \o Chars[rs[4].val]]),
               Tail(calcs))
      ELSE AddCalculations(params, Tail(calcs))

BoolOptions == <<"debug", "exclude_default_members", "parents", "sparse">>

RECURSIVE AddOptions(_, _, _)
RECURSIVE AddOptionsAsStored(_, _, _)
\* an options step that emitted every stored option, false ones as "false"
AddOptionsAsStored(params, options, names) ==
    IF names = <<>> THEN params
    ELSE LET opt == dict_get(options, Head(names)) IN
         AddOptionsAsStored(
            IF opt.found
            THEN DictSet(params, Chars[Head(names)],
                         [str |-> IF opt.val THEN Chars["true"] ELSE Chars["false"]])
            ELSE params,
            opt.dict, Tail(names))

\* lines 243-253: query.options.get(name) is True
AddOptions(params, options, names) ==
    IF names = <<>> THEN params
    ELSE LET opt == dict_get(options, Head(names)) IN
         AddOptions(IF opt.found /\ opt.val
                    THEN DictSet(params, Chars[Head(names)], [str |-> Chars["true"]])
                    ELSE params,
                    opt.dict, Tail(names))

RECURSIVE OptionsRead(_, _)
\* the options mapping after the four reads of lines 243-253
OptionsRead(options, names) ==
    IF names = <<>> THEN options
    ELSE OptionsRead(dict_get(options, Head(names)).dict, Tail(names))

\* lines 183-253: the params dict before the final comprehension
RawParams(query) ==
    LET drilldowns == DrilldownNames(query)
        props == PropertyNames(query)
        filters == LET fs == DictValues(query.filters) IN
                   [i \in DOMAIN fs |-> serialize(fs[i])]
    IN
    IF ~IsCube(query.cube) THEN Raise("AttributeError")
    ELSE IF AnyRaise(drilldowns) THEN FirstRaise(drilldowns)
    ELSE IF AnyRaise(props) THEN FirstRaise(props)
    ELSE IF AnyRaise(filters) THEN FirstRaise(filters)
    ELSE
    LET p0 == << [key |-> Chars["cube"], val |-> [str |-> Chars[query.cube.name]]],
                 [key |-> Chars["measures"],
                  val |-> [set |-> {Chars[item.name] : item \in query.measures}]],
                 [key |-> Chars["drilldowns"],
                  val |-> [list |-> [i \in DOMAIN drilldowns |->
                                        Chars[drilldowns[i].val]]]],
                 [key |-> Chars["properties"],
                  val |-> [list |-> [i \in DOMAIN props |-> Chars[props[i].val]]]],
                 [key |-> Chars["filters"], val |-> [list |-> Vals(filters)]],
                 [key |-> Chars["exclude"], val |-> [list |-> <<>>]] >>
        p1 == IF query.locale # None
              THEN DictSet(p0, Chars["locale"], [str |-> Chars[query.locale]])
              ELSE p0
        p2 == AddCuts(p1, DictValues(query.cuts))
    IN
    IF p2.exc # "" THEN p2
    ELSE LET p3 == AddTime(AddLimitSort(p2.val, query), query) IN
    IF p3.exc # "" THEN p3
    ELSE LET p4 == AddCalculations(p3.val, query.calculations) IN
    IF p4.exc # "" THEN p4
    ELSE Ok(AddOptions(p4.val, query.options, BoolOptions))

\* a list or set value as the comprehension of lines 255-257 would emit it
\* if it did not sort
JoinUnsorted(value) ==
    IF "list" \in DOMAIN value THEN join(Comma, value.list)
    ELSE IF "set" \in DOMAIN value THEN join(Comma, SetToSeq(value.set))
    ELSE value.str

\* a comprehension that sorted the sets only and kept the order of the lists
JoinSortedSetsOnly(value) ==
    IF "list" \in DOMAIN value THEN join(Comma, value.list)
    ELSE IF "set" \in DOMAIN value THEN join(Comma, sorted(SetToSeq(value.set)))
    ELSE value.str

\* ",".join(sorted(value)) if isinstance(value, (list, set)) else value
JoinSorted(value) ==
    IF "list" \in DOMAIN value THEN join(Comma, sorted(value.list))
    ELSE IF "set" \in DOMAIN value THEN join(Comma, sorted(SetToSeq(value.set)))
    ELSE value.str

\* lines 255-257: the valid parameters, lists and sets sorted and joined
FinalParams(params) ==
    LET valid == SelectSeq(params, LAMBDA item : is_valid_value(item.val)) IN
    [i \in DOMAIN valid |-> [key |-> valid[i].key, val |-> JoinSorted(valid[i].val)]]

IsUnreserved(c) ==
    \/ c \in 48..57 \/ c \in 65..90 \/ c \in 97..122
    \/ c \in {95, 46, 45, 126}

HexDigit(n) == IF n < 10 THEN 48 + n ELSE 55 + n

\* urllib.parse.quote_plus
quote_plus(str) ==
    Flatten([i \in DOMAIN str |->
        IF IsUnreserved(str[i]) THEN <<str[i]>>
        ELSE IF str[i] = 32 THEN <<43>>
        ELSE <<37, HexDigit(str[i] \div 16), HexDigit(str[i] % 16)>>])

\* urllib.parse.urlencode
urlencode(params) ==
    join(<<38>>, [i \in DOMAIN params |->
        quote_plus(params[i].key) \o <<61>> \o quote_plus(params[i].val)])

\* a serializer that validated the query first
build_validated_url(query) ==
    LET raw == RawParams(query) IN
    IF Len(query.drilldowns) = 0 \/ Cardinality(query.measures) = 0
    THEN Raise("InvalidQueryError")
    ELSE IF raw.exc # "" THEN raw
    ELSE Ok(Chars["data."] \o Chars[query.extension] \o <<63>>
            \o urlencode(FinalParams(raw.val)))

\* build_logiclayer_url
build_logiclayer_url(query) ==
    LET raw == RawParams(query) IN
    IF raw.exc # "" THEN raw
    ELSE Ok(Chars["data."] \o Chars[query.extension] \o <<63>>
            \o urlencode(FinalParams(raw.val)))

\* a get_url that fell back to the logiclayer URL for any other endpoint
get_url_fallback(query, endpoint) ==
    IF query.class # "TesseractQuery" THEN Raise("AttributeError")
    ELSE build_logiclayer_url(query)

\* TesseractQuery.get_url; class Query has no such method
get_url(query, endpoint) ==
    IF query.class # "TesseractQuery" THEN Raise("AttributeError")
    ELSE IF endpoint = "logiclayer" THEN build_logiclayer_url(query)
    ELSE Raise("KeyError")

\* Query.raise_on_invalid
Query_raise_on_invalid(query) ==
    IF ~IsCube(query.cube) THEN "InvalidQueryError"
    ELSE IF Len(query.drilldowns) = 0 THEN "InvalidQueryError"
    ELSE IF Cardinality(query.measures) = 0 THEN "InvalidQueryError"
    ELSE ""

\* a raise_on_invalid that stops after the checks of the base class
raise_on_invalid_base_only(query) == Query_raise_on_invalid(query)

\* TesseractQuery.raise_on_invalid
TesseractQuery_raise_on_invalid(query) ==
    LET base == Query_raise_on_invalid(query)
        filters == DictValues(query.filters) IN
    IF base # "" THEN base
    ELSE IF \E i \in DOMAIN filters :
              /\ "str" \notin DOMAIN filters[i].value
              /\ filters[i].value.measure \notin query.measures
         THEN "InvalidQueryError"
    ELSE ""

\* query.raise_on_invalid(), by the class of the query
raise_on_invalid(query) ==
    IF query.class = "TesseractQuery" THEN TesseractQuery_raise_on_invalid(query)
    ELSE Query_raise_on_invalid(query)

-----------------------------------------------------------------------------
(* Operations observed from outside *)

\* cube.new_query()
new_query(q) ==
    /\ ~Allocated(q)
    /\ LET self == Query_init(q, cube) IN
        /\ queries' = [queries EXCEPT ![q] = self]
        /\ heap' = HeapAfterInit(self)
    /\ last' = Outcome("new_query", q, "", "", NoVal)
    /\ UNCHANGED <<doc, cube, calls, steps>>

\* TesseractQuery(c)
NewTesseractQuery(q, c) ==
    /\ ~Allocated(q)
    /\ LET self == TesseractQuery_init(q, c) IN
        /\ queries' = [queries EXCEPT ![q] = self]
        /\ heap' = HeapAfterInit(self)
    /\ last' = Outcome("TesseractQuery", q, "", "", NoVal)
    /\ UNCHANGED <<doc, cube, calls, steps>>

\* query.get_url(endpoint)
GetUrl(q, endpoint) ==
    /\ Allocated(q)
    /\ LET self == queries[q]
           r == get_url(Q(q), endpoint) IN
        /\ last' = Outcome("get_url", q, endpoint, r.exc, r.val)
        /\ heap' = IF self.class = "TesseractQuery" /\ endpoint = "logiclayer"
                      /\ r.exc = ""
                   THEN [heap EXCEPT !.options[self.options] =
                            OptionsRead(@, BoolOptions)]
                   ELSE heap
    /\ UNCHANGED <<doc, cube, queries, calls, steps>>

\* query.raise_on_invalid()
RaiseOnInvalid(q) ==
    /\ Allocated(q)
    /\ last' = Outcome("raise_on_invalid", q, "", raise_on_invalid(Q(q)), NoVal)
    /\ UNCHANGED <<doc, cube, queries, heap, calls, steps>>

\* the outcome of a lookup on the cube
Looked(op, name, r) ==
    /\ last' = Outcome(op, 0, name, r.exc, r.val)
    /\ UNCHANGED <<doc, cube, queries, heap, calls, steps>>

GetDimension(name) == Looked("get_dimension", name, get_dimension(cube, name))

GetHierarchy(name) == Looked("get_hierarchy", name, get_hierarchy(cube, name))

GetLevel(name) == Looked("get_level", name, get_level(cube, name))

GetMeasure(name) == Looked("get_measure", name, get_measure(cube, name))

GetProperty(name) == Looked("get_property", name, get_property(cube, name))

-----------------------------------------------------------------------------
(* Specifications *)

\* the state once the cube of document d is built and no query exists
InitWith(d) ==
    /\ doc = d
    /\ cube = TesseractCube(d)
    /\ queries = [q \in QIds |-> Unallocated]
    /\ heap = EmptyHeap
    /\ calls = [q \in QIds |-> {}]
    /\ steps = 0
    /\ last = [op |-> "init", q |-> 0, args |-> "", exc |-> "", val |-> NoVal,
               streak |-> 1]

(* Name resolution on the cubes of two documents *)

LookupNames ==
    {"Year", "Exporter", "Importer", "Geo", "Continent", "Country",
     "Exporter Continent", "Exporter Country", "Importer Country",
     "ISO 2", "Exporter Country ISO 2", "Importer Country ISO 2",
     "Trade Value", "Quantity", "invalid_name"}

InitLookup == \E d \in Docs : InitWith(d)

NextLookup ==
    \/ \E name \in LookupNames : GetDimension(name)
    \/ \E name \in LookupNames : GetHierarchy(name)
    \/ \E name \in LookupNames : GetLevel(name)
    \/ \E name \in LookupNames : GetMeasure(name)
    \/ \E name \in LookupNames : GetProperty(name)

SpecLookup == InitLookup /\ [][NextLookup]_vars

-----------------------------------------------------------------------------
(* Claims on name resolution *)

\* the level records of a document in tree order, after the parent names
\* and the depth are stamped on them and before TesseractLevel is built
DocLevels(d) ==
    Flatten([i \in DOMAIN d.dimensions |->
        LET hies == Dimension_inyect_parents(d.dimensions[i]).hierarchies IN
        Flatten([j \in DOMAIN hies |->
            inyect_level_depth(Hierarchy_inyect_parents(hies[j]).levels)])])

\* the property records of a document in tree order, stamped
DocProperties(d) ==
    LET lvls == DocLevels(d) IN
    Flatten([i \in DOMAIN lvls |-> Level_inyect_parents(lvls[i]).properties])

NamedOrUniqueNamed(ents, s) ==
    SelectSeq(ents, LAMBDA e : e.name = s \/ e.unique_name = s)

\* C7: get_level(s) and get_property(s) return the first entity in tree
\* order whose name or unique_name is s, and raise a not-found error
\* (StopIteration) when there is none.
C7_FirstByNameOrUniqueName ==
    last.op \in {"get_level", "get_property"} =>
        LET hits == NamedOrUniqueNamed(
                        IF last.op = "get_level" THEN DocLevels(doc)
                        ELSE DocProperties(doc), last.args) IN
        IF hits = <<>> THEN last.exc = "StopIteration"
        ELSE /\ last.exc = ""
             /\ last.val.name = Head(hits).name
             /\ last.val.dimension = Head(hits).dimension
             /\ last.val.hierarchy = Head(hits).hierarchy

\* the entities get_dimension, get_hierarchy and get_measure search
Searched(op) ==
    IF op = "get_dimension" THEN Range(cube.dimensions)
    ELSE IF op = "get_hierarchy"
    THEN UNION {Range(dim.hierarchies) : dim \in Range(cube.dimensions)}
    ELSE Range(cube.measures)

\* C8: get_dimension, get_hierarchy and get_measure return an entity of the
\* cube whose name is exactly the name asked for, and raise a not-found
\* error (StopIteration), returning nothing, when no entity has that name.
C8_ExactNameOrNotFound ==
    last.op \in {"get_dimension", "get_hierarchy", "get_measure"} =>
        IF \E e \in Searched(last.op) : e.name = last.args
        THEN /\ last.exc = ""
             /\ last.val \in Searched(last.op)
             /\ last.val.name = last.args
        ELSE last.exc = "StopIteration" /\ last.val = NoVal

C8_Witness ==
    /\ last.op = "get_measure"
    /\ last.args = "invalid_name"
    /\ last.exc = "StopIteration"

-----------------------------------------------------------------------------
(* One query, built and serialized *)

MaxCalls == 3

Endpoints == {"logiclayer", "aggregate"}

MeasureNames == {"Trade Value", "Quantity", "invalid_name"}

FilterRefs == {"Quantity", "Trade Value", "rate"}

\* (joint, condition2) as set_filter may receive them
SecondConstraints == {<<None, <<>>>>, <<"and", <<"lte", 1000>>>>}

Init == InitWith(Doc92)

Next ==
    \/ new_query(1)
    \/ \E c \in {cube, NotACube} : NewTesseractQuery(1, c)
    \/ steps < MaxCalls /\ \E name \in MeasureNames : add_measure(1, name)
    \/ steps < MaxCalls /\ \E ref \in FilterRefs, c2 \in SecondConstraints :
            set_filter(1, ref, <<"gt", 200>>, c2[1], c2[2])
    \/ steps < MaxCalls /\ \E name \in {"Year", "Country"} : set_drilldown(1, name)
    \/ steps < MaxCalls /\ set_property(1, "ISO 2")
    \/ steps < MaxCalls /\ \E opt \in {<<"debug", TRUE>>, <<"parents", FALSE>>} :
            set_option(1, opt[1], opt[2])
    \/ steps < MaxCalls /\ set_locale(1, "es")
    \/ steps < MaxCalls /\ set_pagination(1, 10, 30)
    \/ steps < MaxCalls /\ set_sorting(1, "Quantity", "asc")
    \/ steps < MaxCalls /\ set_extension(1, "csv")
    \/ \E endpoint \in Endpoints : GetUrl(1, endpoint)
    \/ RaiseOnInvalid(1)

Spec == Init /\ [][Next]_vars

-----------------------------------------------------------------------------
(* Claims on serialization and validation *)

\* no element of a list of str is smaller than an earlier one
IsSorted(items) ==
    \A i, j \in DOMAIN items : i < j => ~LexLess(items[j], items[i])

RECURSIVE Split(_)
\* str.split(","), of a non-empty str
Split(str) ==
    IF 44 \notin Range(str) THEN <<str>>
    ELSE LET i == CHOOSE k \in DOMAIN str :
                    str[k] = 44 /\ \A j \in 1..(k - 1) : str[j] # 44 IN
         <<SubSeq(str, 1, i - 1)>> \o Split(SubSeq(str, i + 1, Len(str)))

\* the name a level goes by in a URL: the unique_name its document gives
\* it, if any, else its name
EffectiveLevelName(level) ==
    LET raw == CHOOSE l \in Range(DocLevels(doc)) :
                    /\ l.name = level.name
                    /\ l.dimension = level.dimension
                    /\ l.hierarchy = level.hierarchy IN
    IF raw.unique_name \notin {None, ""} THEN raw.unique_name ELSE raw.name

EffectivePropertyName(propty) ==
    IF propty.unique_name \notin {None, ""} THEN propty.unique_name
    ELSE propty.name

\* what the query holds for a multi-valued parameter
Held(query, key) ==
    IF key = "measures" THEN {Chars[m.name] : m \in query.measures}
    ELSE IF key = "drilldowns"
    THEN {Chars[EffectiveLevelName(d.level)] : d \in Range(DictValues(query.drilldowns))}
    ELSE IF key = "properties"
    THEN {Chars[EffectivePropertyName(p)] :
            p \in UNION {d.properties : d \in Range(DictValues(query.drilldowns))}}
    ELSE {serialize(f).val : f \in Range(DictValues(query.filters))}

MultiValued == {"measures", "drilldowns", "properties", "filters"}

C6_InvalidExactlyWhen ==
    (last.op = "raise_on_invalid" /\ Q(last.q).class = "TesseractQuery") =>
        LET query == Q(last.q)
            invalid ==
                \/ ~IsCube(query.cube)
                \/ Len(query.drilldowns) = 0
                \/ query.measures = {}
                \/ \E f \in Range(DictValues(query.filters)) :
                        /\ "measure" \in DOMAIN f.value
                        /\ f.value.measure \notin query.measures IN
        /\ last.exc \in {"", "InvalidQueryError"}
        /\ (last.exc = "InvalidQueryError") <=> invalid
        /\ (calls[last.q] = {}) => last.exc = "InvalidQueryError"

\* raise_on_invalid() raised on a query that has a drilldown and a measure,
\* because of a filter on another measure
C6_Witness ==
    /\ last.op = "raise_on_invalid" /\ last.exc = "InvalidQueryError"
    /\ Q(last.q).class = "TesseractQuery"
    /\ Len(Q(last.q).drilldowns) > 0
    /\ Q(last.q).measures # {}

\* C9: cube.new_query() returns a TesseractQuery bound to the cube.
C9_NewQueryIsTesseractQuery ==
    last.op = "new_query" =>
        /\ queries[last.q].class = "TesseractQuery"
        /\ queries[last.q].cube = cube

\* C10: get_url() changes nothing in the query, and a second get_url() with
\* no call in between has the same outcome as the first.
C10_GetUrlPureIdempotent ==
    [][(last'.op = "get_url" /\ last' # last) =>
        /\ queries' = queries
        /\ heap' = heap
        /\ (last.op = "get_url" /\ last.q = last'.q /\ last.args = last'.args) =>
                (last'.exc = last.exc /\ last'.val = last.val)]_vars

\* get_url() returned a URL twice in a row, for a query with a measure, a
\* filter and an option
C10_Witness ==
    /\ last.op = "get_url" /\ last.exc = "" /\ last.streak = 2
    /\ Q(last.q).measures # {}
    /\ Len(Q(last.q).filters) > 0
    /\ Len(Q(last.q).options) > 0

-----------------------------------------------------------------------------
(* One query, cut and drilled down *)

MaxCutCalls == 3

CutLevels == {"Year", "Continent", "Country", "invalid_name"}

\* (level_name, members, is_exclusive) as set_cut may receive them
CutInputs ==
    {<<"Year", <<"2019">>, "None">>,
     <<"Year", <<"2020", "2019">>, "True">>,
     <<"Year", <<>>, "True">>,
     <<"Continent", <<"2019">>, "True">>,
     <<"Country", <<"2020", "2019">>, "None">>,
     <<"Country", <<>>, "None">>,
     <<"invalid_name", <<"2019">>, "None">>}

InitCuts == InitWith(Doc92)

NextCuts ==
    \/ new_query(1)
    \/ NewTesseractQuery(1, cube)
    \/ steps < MaxCutCalls /\ \E cut \in CutInputs :
            set_cut(1, cut[1], cut[2], cut[3], "None")
    \/ steps < MaxCutCalls /\ \E name \in CutLevels : set_drilldown(1, name)
    \/ GetUrl(1, "logiclayer")

SpecCuts == InitCuts /\ [][NextCuts]_vars

-----------------------------------------------------------------------------
(* Claims on cuts and drilldowns *)

RECURSIVE SplitOn(_, _)
\* str.split(sep), sep one character
SplitOn(str, sep) ==
    IF sep \notin Range(str) THEN <<str>>
    ELSE LET i == CHOOSE k \in DOMAIN str :
                    str[k] = sep /\ \A j \in 1..(k - 1) : str[j] # sep IN
         <<SubSeq(str, 1, i - 1)>> \o SplitOn(SubSeq(str, i + 1, Len(str)), sep)

\* the key=value pairs of the search part of a URL, still percent-encoded
UrlPairs(url) ==
    LET search == SplitOn(url, 63)[2] IN
    IF search = <<>> THEN <<>>
    ELSE LET pairs == SplitOn(search, 38) IN
         [i \in DOMAIN pairs |->
            LET kv == SplitOn(pairs[i], 61) IN [key |-> kv[1], val |-> kv[2]]]

\* the values the URL carries under a key
UrlValues(url, key) ==
    LET hits == SelectSeq(UrlPairs(url), LAMBDA p : p.key = quote_plus(key)) IN
    [i \in DOMAIN hits |-> hits[i].val]

\* C3: for every Cut of the query, get_url() emits one parameter whose key
\* is the effective name of the Cut's level and whose value is the Cut's
\* members, sorted and joined by commas; the effective name of the level of
\* an exclusive Cut is also listed in the exclude parameter.
C3_CutParameters ==
    (/\ last.op = "get_url" /\ last.args = "logiclayer"
     /\ Q(last.q).class = "TesseractQuery"
     /\ Len(Q(last.q).cuts) > 0
     /\ Len(Q(last.q).drilldowns) = 0) =>
        /\ last.exc = ""
        /\ \A cut \in Range(DictValues(Q(last.q).cuts)) :
            LET name == Chars[EffectiveLevelName(cut.level)]
                members == [i \in DOMAIN cut.members |-> Chars[cut.members[i]]]
                exclude == UrlValues(last.val, Chars["exclude"]) IN
            /\ UrlValues(last.val, name) = <<quote_plus(join(Comma, sorted(members)))>>
            \* the comma of the exclude list is encoded as %2C
            /\ cut.is_exclusive =>
                /\ Len(exclude) = 1
                /\ \E k \in Range(SplitOn(exclude[1], 37)) :
                        k = quote_plus(name) \/ k = <<50, 67>> \o quote_plus(name)

\* the set_cut or set_drilldown calls made on q that found their level
LevelCalls(q, op) ==
    {c \in calls[q] : c.op = op /\ get_level(cube, c.level_name).exc = ""}

\* the dimension of the level a call names
CallDimension(c) == get_level(cube, c.level_name).val.dimension

\* the entries of a dict of Cuts or Drilldowns: one per dimension that a
\* call named, each stored under the dimension of its level
OnePerDimension(entries, made) ==
    /\ \A i, j \in DOMAIN entries :
            entries[i].val.level.dimension = entries[j].val.level.dimension
                => i = j
    /\ \A i \in DOMAIN entries : entries[i].key = entries[i].val.level.dimension
    /\ {entries[i].key : i \in DOMAIN entries} = {CallDimension(c) : c \in made}

-----------------------------------------------------------------------------
(* Two queries on one cube *)

MaxTwoCalls == 2

\* a calculation as add_calculation receives it
RateCalc == [kind |-> "rate", params |-> [value |-> "Quantity"]]

InitTwo == InitWith(Doc92)

NextTwo ==
    \/ \E q \in QIds : new_query(q)
    \/ \E q \in QIds : NewTesseractQuery(q, cube)
    \/ steps < MaxTwoCalls /\ \E q \in QIds : add_calculation(q, RateCalc)
    \/ steps < MaxTwoCalls /\ \E q \in QIds :
            set_cut(q, "Year", <<"2019">>, "None", "None")
    \/ steps < MaxTwoCalls /\ \E q \in QIds : set_drilldown(q, "Year")
    \/ steps < MaxTwoCalls /\ \E q \in QIds :
            set_filter(q, "Quantity", <<"gt", 200>>, None, <<>>)
    \/ steps < MaxTwoCalls /\ \E q \in QIds : add_measure(q, "Quantity")
    \/ steps < MaxTwoCalls /\ \E q \in QIds : set_option(q, "debug", TRUE)
    \/ steps < MaxTwoCalls /\ \E q \in QIds : set_pagination(q, 2, 7)
    \/ steps < MaxTwoCalls /\ \E q \in QIds : set_sorting(q, "Trade Value", "asc")
    \/ steps < MaxTwoCalls /\ \E q \in QIds : set_time(q, "week", "oldest")

SpecTwo == InitTwo /\ [][NextTwo]_vars

\* C4: whatever builder calls the other query received, a query that
\* received none still has empty calculations, cuts, drilldowns, filters,
\* measures and options, pagination (0, 0), sorting (None, "desc") and time
\* (None, None).
C4_NoSharedState ==
    \A q \in QIds : (Allocated(q) /\ calls[q] = {}) =>
        LET query == Q(q) IN
        /\ query.calculations = <<>>
        /\ query.cuts = <<>>
        /\ query.drilldowns = <<>>
        /\ query.filters = <<>>
        /\ query.measures = {}
        /\ query.options = <<>>
        /\ query.pagination = <<0, 0>>
        /\ query.sorting = <<None, "desc">>
        /\ query.time = <<None, None>>

\* both queries exist, one received two calls that filled a container and
\* set the pagination, the other none
C4_Witness ==
    /\ Allocated(1) /\ Allocated(2)
    /\ calls[2] = {}
    /\ Q(1).measures # {}
    /\ Q(1).pagination = <<2, 7>>

-----------------------------------------------------------------------------
(* Two queries given the same calls *)

MaxPairCalls == 2

\* builder calls none of which overwrites another: cuts and drilldowns on
\* two dimensions, two measures, filters on two values
PairCalls ==
    {[op |-> "set_cut", level_name |-> "Year", members |-> <<"2019">>],
     [op |-> "set_cut", level_name |-> "Continent", members |-> <<"2020">>],
     [op |-> "add_measure", name |-> "Trade Value"],
     [op |-> "add_measure", name |-> "Quantity"],
     [op |-> "set_drilldown", level_name |-> "Year"],
     [op |-> "set_drilldown", level_name |-> "Country"],
     [op |-> "set_filter", name |-> "Trade Value"],
     [op |-> "set_filter", name |-> "Quantity"]}

\* the call c made on q
Make(q, c) ==
    IF c.op = "set_cut" THEN set_cut(q, c.level_name, c.members, "None", "None")
    ELSE IF c.op = "add_measure" THEN add_measure(q, c.name)
    ELSE IF c.op = "set_drilldown" THEN set_drilldown(q, c.level_name)
    ELSE set_filter(q, c.name, <<"gt", 200>>, None, <<>>)

InitPair == InitWith(Doc92)

NextPair ==
    \/ \E q \in QIds : NewTesseractQuery(q, cube)
    \/ \E q \in QIds, c \in PairCalls :
        /\ steps < 2 * MaxPairCalls
        /\ Cardinality(calls[q]) < MaxPairCalls
        /\ Make(q, c)
    \/ \E q \in QIds : GetUrl(q, "logiclayer")

SpecPair == InitPair /\ [][NextPair]_vars

\* C1: two queries on the same cube that received the same builder calls,
\* none overwriting another, in whatever order, both return a URL from
\* get_url(), and the same one.
C1_OrderIndependent ==
    (/\ Allocated(1) /\ Allocated(2)
     /\ calls[1] # {}
     /\ calls[1] = calls[2]) =>
        LET url1 == get_url(Q(1), "logiclayer")
            url2 == get_url(Q(2), "logiclayer") IN
        /\ url1.exc = "" /\ url2.exc = ""
        /\ url1.val = url2.val

-----------------------------------------------------------------------------
(* One query and its scalar settings *)

MaxSettingCalls == 3

\* set_pagination(page, offset=0)
DefaultOffset == 0

\* (page, offset) as set_pagination may receive them
PaginationInputs == {<<0, 30>>, <<10, DefaultOffset>>, <<10, 30>>, <<10, -1>>}

Locales == {"", "es"}

\* (precision, value) as set_time may receive them
TimeInputs ==
    {<<"week", "oldest">>, <<"week", None>>, <<None, "oldest">>, <<"", "oldest">>}

\* (prop, value) as set_option may receive them
OptionInputs ==
    {<<"debug", TRUE>>, <<"debug", FALSE>>, <<"parents", FALSE>>,
     <<"sparse", TRUE>>, <<"exclude_default_members", TRUE>>}

InitSettings == InitWith(Doc92)

NextSettings ==
    \/ NewTesseractQuery(1, cube)
    \/ steps < MaxSettingCalls /\ \E opt \in OptionInputs :
            set_option(1, opt[1], opt[2])
    \/ steps < MaxSettingCalls /\ \E pagination \in PaginationInputs :
            set_pagination(1, pagination[1], pagination[2])
    \/ steps < MaxSettingCalls /\ \E locale \in Locales : set_locale(1, locale)
    \/ steps < MaxSettingCalls /\ \E time \in TimeInputs :
            set_time(1, time[1], time[2])
    \/ steps < MaxSettingCalls /\ add_measure(1, "Quantity")
    \/ steps < MaxSettingCalls /\ set_cut(1, "Year", <<>>, "None", "None")
    \/ steps < MaxSettingCalls /\ set_sorting(1, "Quantity", "asc")
    \/ steps < MaxSettingCalls /\ set_filter(1, "Quantity", <<"gt", 200>>, None, <<>>)
    \/ GetUrl(1, "logiclayer")

SpecSettings == InitSettings /\ [][NextSettings]_vars

-----------------------------------------------------------------------------
(* Claims on the scalar parameters *)

\* the last value set_option stored for an option is True
LastSetTrue(query, prop) ==
    /\ prop \in DictKeys(query.options)
    /\ DictGet(query.options, prop) = TRUE

\* C11: in every URL get_url() returns, each of debug,
\* exclude_default_members, parents and sparse appears exactly when the
\* option was last set to true, and then once with the value "true"; no
\* parameter of the URL has the value "false".
C11_OptionsOnlyWhenTrue ==
    (last.op = "get_url" /\ last.exc = "") =>
        /\ \A prop \in Range(BoolOptions) :
            UrlValues(last.val, Chars[prop]) =
                IF LastSetTrue(Q(last.q), prop) THEN <<Chars["true"]>> ELSE <<>>
        /\ \A i \in DOMAIN UrlPairs(last.val) :
            UrlPairs(last.val)[i].val # Chars["false"]

\* a URL was returned for a query with one option last set to true, one set
\* to true and then to false, and the others never set
C11_Witness ==
    /\ last.op = "get_url" /\ last.exc = ""
    /\ \E p1, p2 \in Range(BoolOptions) :
        /\ LastSetTrue(Q(last.q), p1)
        /\ [op |-> "set_option", prop |-> p2, value |-> TRUE] \in calls[last.q]
        /\ [op |-> "set_option", prop |-> p2, value |-> FALSE] \in calls[last.q]
        /\ ~LastSetTrue(Q(last.q), p2)
    /\ Len(Q(last.q).options) = 2

\* the keys of the URL, in the order they appear
UrlKeys(url) == [i \in DOMAIN UrlPairs(url) |-> UrlPairs(url)[i].key]

\* the place of a key among the named parameters; the key of a cut is any
\* other key
Place(order, other, key) ==
    IF \E i \in DOMAIN order : quote_plus(Chars[order[i]]) = key
    THEN CHOOSE i \in DOMAIN order : quote_plus(Chars[order[i]]) = key
    ELSE other

\* the keys of the URL follow the order, cut parameters at place other
InOrder(url, order, other) ==
    \A i, j \in DOMAIN UrlKeys(url) :
        i < j => Place(order, other, UrlKeys(url)[i])
                    <= Place(order, other, UrlKeys(url)[j])

\* steps 1 to 11: place 6 is left to the cut parameters, locale is last
OrderLocaleLast ==
    <<"cube", "measures", "drilldowns", "properties", "filters", "exclude",
      "limit", "sort", "time", "growth", "rca", "top",
      "debug", "exclude_default_members", "parents", "sparse", "locale">>

\* the order in which build_logiclayer_url fills params: place 8 is left to
\* the cut parameters
OrderOfParams ==
    <<"cube", "measures", "drilldowns", "properties", "filters", "exclude",
      "locale", "", "limit", "sort", "time", "growth", "rca", "top",
      "debug", "exclude_default_members", "parents", "sparse">>

-----------------------------------------------------------------------------
(* One query, built in the order of test_build_logiclayer_url *)

\* GrowthCalculation(period=cube.get_level(level_name),
\*                   value=cube.get_measure(measure_name))
GrowthCalculation(level_name, measure_name) ==
    [kind |-> "growth",
     params |-> [period |-> get_level(cube, level_name).val,
                 value |-> get_measure(cube, measure_name).val]]

InitScript == InitWith(Doc92)

NextScript ==
    \/ new_query(1)
    \/ NewTesseractQuery(1, cube)
    \/ steps = 0 /\ set_extension(1, "csv")
    \/ steps = 1 /\ set_drilldown(1, "Year")
    \/ steps = 2 /\ \E name \in {"Trade Value", "Quantity"} : add_measure(1, name)
    \/ steps = 3 /\ \E name \in {"Country", "Exporter Country"} :
            set_drilldown(1, name)
    \/ steps = 4 /\ add_measure(1, "Quantity")
    \/ steps = 5 /\ set_filter(1, "Quantity", <<"gt", 200>>, "and", <<"lte", 1000>>)
    \/ steps = 6 /\ \E name \in {"ISO 2", "Exporter Country ISO 2"} :
            set_property(1, name)
    \/ steps = 7 /\ set_locale(1, "es")
    \/ steps = 8 /\ set_pagination(1, 10, 30)
    \/ steps = 9 /\ \E value \in BOOLEAN : set_option(1, "debug", value)
    \/ steps = 10 /\ set_option(1, "parents", FALSE)
    \/ steps = 11 /\ \E order \in {"asc", "desc"} : set_sorting(1, "Quantity", order)
    \/ steps \in {12, 13} /\ \E name \in {"Trade Value", "Quantity"} :
            add_calculation(1, GrowthCalculation("Year", name))
    \/ GetUrl(1, "logiclayer")
    \/ RaiseOnInvalid(1)

SpecScript == InitScript /\ [][NextScript]_vars

\* the query has what the URL of the claim carries
CarriesAll(query) ==
    /\ query.measures # {}
    /\ Len(query.drilldowns) > 0
    /\ \E d \in Range(DictValues(query.drilldowns)) : d.properties # {}
    /\ Len(query.filters) > 0
    /\ query.locale # None
    /\ query.pagination[1] > 0
    /\ query.sorting[1] # None
    /\ \E c \in Range(query.calculations) : c.kind = "growth"
    /\ LastSetTrue(query, "debug")

TestOrder ==
    <<"cube", "measures", "drilldowns", "properties", "filters", "locale",
      "limit", "sort", "growth", "debug">>

\* the URL of the TesseractQuery 1, if there is one
UrlOf1 ==
    IF Allocated(1) /\ queries[1].class = "TesseractQuery"
    THEN get_url(Q(1), "logiclayer")
    ELSE Raise("AttributeError")

\* C13: for a query with measures, drilldowns, properties, filters, a
\* locale, a limit, a sort key, a growth calculation and debug, get_url()
\* returns a URL whose parameters are, in this order, cube, measures,
\* drilldowns, properties, filters, locale, limit, sort, growth, debug; the
\* parameters of every URL on the way there follow that same order, so that
\* a later setting reorders none.
C13_TestOrder ==
    (Allocated(1) /\ queries[1].class = "TesseractQuery") =>
        /\ CarriesAll(Q(1)) =>
            /\ UrlOf1.exc = ""
            /\ UrlKeys(UrlOf1.val) =
                    [i \in DOMAIN TestOrder |-> quote_plus(Chars[TestOrder[i]])]
        /\ UrlOf1.exc = "" => InOrder(UrlOf1.val, TestOrder, 0)

\* C14: get_url() returns a URL that carries the time parameter exactly
\* when both components of the time restriction are set, with the value
\* "<precision>.<value>"; so it does after set_time(p, v) with both given.
C14_TimeWhenBothSet ==
    (/\ last.op = "get_url" /\ last.args = "logiclayer"
     /\ Q(last.q).class = "TesseractQuery"
     /\ Len(Q(last.q).drilldowns) = 0 /\ Len(Q(last.q).cuts) = 0) =>
        LET time == Q(last.q).time IN
        /\ last.exc = ""
        /\ UrlValues(last.val, Chars["time"]) =
                IF time[1] # None /\ time[2] # None
                THEN <<quote_plus(Chars[time[1]] \o Dot \o Chars[time[2]])>>
                ELSE <<>>

-----------------------------------------------------------------------------
(* One query and its calculations *)

MaxCalcCalls == 3

\* RcaCalculation(location, category, value)
RcaCalculation(location, category, measure_name) ==
    [kind |-> "rca",
     params |-> [location |-> get_level(cube, location).val,
                 category |-> get_level(cube, category).val,
                 value |-> get_measure(cube, measure_name).val]]

\* TopkCalculation(amount, category, value, descendent); value is a Measure
\* or a str
TopkCalculation(amount, category, value, descendent) ==
    [kind |-> "topk",
     params |-> [amount |-> amount,
                 category |-> get_level(cube, category).val,
                 value |-> value,
                 order |-> IF ~descendent THEN "asc" ELSE "desc"]]

Calculations ==
    {GrowthCalculation("Year", "Trade Value"),
     GrowthCalculation("Year", "Quantity"),
     RcaCalculation("Country", "Year", "Quantity"),
     RcaCalculation("Continent", "Year", "Trade Value"),
     TopkCalculation(5, "Continent", get_measure(cube, "Trade Value").val, TRUE),
     TopkCalculation(3, "Year", [str |-> "Quantity"], FALSE),
     RateCalc}

InitCalcs == InitWith(Doc92)

NextCalcs ==
    \/ NewTesseractQuery(1, cube)
    \/ steps < MaxCalcCalls /\ \E calc \in Calculations : add_calculation(1, calc)
    \/ steps < MaxCalcCalls /\ add_measure(1, "Quantity")
    \/ GetUrl(1, "logiclayer")

SpecCalcs == InitCalcs /\ [][NextCalcs]_vars

\* the name of the value of a calculation: of the Measure, or the str itself
ValueName(value) == IF "str" \in DOMAIN value THEN value.str ELSE value.name

\* the parameter a calculation of a kind is serialized as
CalcKey(kind) == IF kind = "topk" THEN "top" ELSE kind

CalcText(calc) ==
    IF calc.kind = "growth"
    THEN Chars[EffectiveLevelName(calc.params.period)] \o Comma
         \o Chars[ValueName(calc.params.value)]
    ELSE IF calc.kind = "rca"
    THEN Chars[EffectiveLevelName(calc.params.location)] \o Comma
         \o Chars[EffectiveLevelName(calc.params.category)] \o Comma
         \o Chars[ValueName(calc.params.value)]
    ELSE FormatInt(calc.params.amount) \o Comma
         \o Chars[EffectiveLevelName(calc.params.category)] \o Comma
         \o Chars[ValueName(calc.params.value)] \o Comma
         \o Chars[calc.params.order]

\* C15: get_url() returns a URL with one parameter per kind of calculation
\* in the list (growth, rca, top), built from the last calculation of that
\* kind: "<period>,<value>", "<location>,<category>,<value>" and
\* "<amount>,<category>,<value>,<order>", levels by their effective name.
C15_LastOfEachKind ==
    (/\ last.op = "get_url" /\ last.args = "logiclayer"
     /\ Q(last.q).class = "TesseractQuery") =>
        LET calcs == Q(last.q).calculations IN
        /\ last.exc = ""
        /\ \A kind \in {"growth", "rca", "topk"} :
            LET ofkind == SelectSeq(calcs, LAMBDA c : c.kind = kind) IN
            UrlValues(last.val, Chars[CalcKey(kind)]) =
                IF ofkind = <<>> THEN <<>>
                ELSE <<quote_plus(CalcText(ofkind[Len(ofkind)]))>>

-----------------------------------------------------------------------------
(* One query and its filters *)

MaxFilterCalls == 2

\* condition1 as set_filter may receive it
FirstConstraints == {<<"gt", 200>>, <<"gte", 0>>, <<"lt", 1000>>}

\* (joint, condition2) as set_filter may receive them, None for an omitted
\* condition2
JointConstraints ==
    {<<None, <<>>>>, <<"and", <<>>>>, <<"and", <<"lte", 1000>>>>,
     <<"or", <<"eq", 0>>>>, <<None, <<"neq", 5>>>>}

\* value names of which one is the other followed by a space: a measure of
\* the cube and a str that names none
PrefixRefs == {"Trade Value", "Trade"}

InitFilters == InitWith(Doc92)

NextFilters ==
    \/ NewTesseractQuery(1, cube)
    \/ steps < MaxFilterCalls /\
        \E ref \in {"Quantity", "rate"}, c1 \in FirstConstraints,
           c2 \in JointConstraints :
            set_filter(1, ref, c1, c2[1], c2[2])
    \/ steps < MaxFilterCalls /\ \E ref \in PrefixRefs :
            set_filter(1, ref, <<"gt", 200>>, None, <<>>)
    \/ steps < MaxFilterCalls /\ add_measure(1, "Quantity")
    \/ GetUrl(1, "logiclayer")

SpecFilters == InitFilters /\ [][NextFilters]_vars

\* "<value-name>.<op1>.<threshold1>", and ".<joint>.<op2>.<threshold2>" after
\* it when a joiner and a secondary constraint are set
FilterText(filtr) ==
    LET name == IF "measure" \in DOMAIN filtr.value THEN filtr.value.measure.name
                ELSE filtr.value.str
        first == Chars[name] \o Dot \o Chars[filtr.constraint1[1]] \o Dot
                 \o FormatInt(filtr.constraint1[2]) IN
    IF filtr.joint # None /\ filtr.constraint2 # <<>>
    THEN first \o Dot \o Chars[filtr.joint] \o Dot \o Chars[filtr.constraint2[1]]
         \o Dot \o FormatInt(filtr.constraint2[2])
    ELSE first

\* C16: get_url() serializes every filter of the query, whatever joiner and
\* secondary constraint it has, as "<value-name>.<op1>.<threshold1>"
\* followed by ".<joint>.<op2>.<threshold2>" when both a joiner and a
\* secondary constraint are set; the filters parameter carries these texts.
C16_FilterText ==
    (/\ last.op = "get_url" /\ last.args = "logiclayer"
     /\ Q(last.q).class = "TesseractQuery") =>
        LET fs == DictValues(Q(last.q).filters)
            texts == [i \in DOMAIN fs |-> FilterText(fs[i])] IN
        /\ last.exc = ""
        /\ UrlValues(last.val, Chars["filters"]) =
                IF fs = <<>> THEN <<>>
                ELSE <<quote_plus(join(Comma, sorted(texts)))>>

-----------------------------------------------------------------------------
(* Claims on get_url under the specification Spec *)

\* C17: get_url() with the aggregate endpoint on a TesseractQuery raises
\* the error that says the endpoint is not supported (a KeyError), returns
\* nothing, and leaves the query as it was.
C17_AggregateNotSupported ==
    [][(/\ last'.op = "get_url" /\ last' # last
        /\ last'.args = "aggregate"
        /\ queries[last'.q].class = "TesseractQuery") =>
            /\ last'.exc = "KeyError"
            /\ last'.val = NoVal
            /\ queries' = queries
            /\ heap' = heap]_vars

\* get_url() with the aggregate endpoint raised on a query for which the
\* logiclayer endpoint returns a URL
C17_Witness ==
    /\ last.op = "get_url" /\ last.args = "aggregate" /\ last.exc = "KeyError"
    /\ queries[last.q].class = "TesseractQuery"
    /\ Q(last.q).measures # {}
    /\ get_url(Q(last.q), "logiclayer").exc = ""

\* "data.<extension>?cube=<cube name>"
BareUrl(extension, name) ==
    Chars["data."] \o Chars[extension] \o <<63>> \o Chars["cube"] \o <<61>>
    \o quote_plus(Chars[name])

-----------------------------------------------------------------------------
(* Claims on the limit parameter and on empty values *)

\* the limit parameter of the URL is as given, or absent when page is not
\* greater than 0
LimitIs(url, page, text) ==
    UrlValues(url, Chars["limit"]) =
        IF page > 0 THEN <<quote_plus(text)>> ELSE <<>>

\* set_pagination stores what it is given
PaginationStored ==
    last.op = "set_pagination" =>
        Q(last.q).pagination = <<last.args.page, last.args.offset>>

\* C19 as stated: every URL get_url() returns carries limit exactly when
\* the page is greater than 0, with the page alone as value when the offset
\* is 0 and "page,offset" otherwise; set_pagination(p) leaves the offset 0.
C19_LimitOffsetIsZero ==
    /\ PaginationStored
    /\ (last.op = "get_url" /\ last.exc = "") =>
        LET page == Q(last.q).pagination[1]
            offset == Q(last.q).pagination[2] IN
        LimitIs(last.val, page,
                IF offset = 0 THEN FormatInt(page)
                ELSE FormatInt(page) \o Comma \o FormatInt(offset))

\* C19 as amended: every URL get_url() returns carries limit exactly when
\* the page is greater than 0, with the page alone as value when the offset
\* is not greater than 0 and "page,offset" when it is; set_pagination(p)
\* leaves the offset 0.
C19_LimitOffsetPositive ==
    /\ PaginationStored
    /\ (last.op = "get_url" /\ last.exc = "") =>
        LET page == Q(last.q).pagination[1]
            offset == Q(last.q).pagination[2] IN
        LimitIs(last.val, page,
                IF offset > 0 THEN FormatInt(page) \o Comma \o FormatInt(offset)
                ELSE FormatInt(page))

\* a URL was returned with limit=10 for a pagination whose offset was left
\* at its default
C19_Witness ==
    /\ last.op = "get_url" /\ last.exc = ""
    /\ Q(last.q).pagination = <<10, DefaultOffset>>
    /\ UrlValues(last.val, Chars["limit"]) = <<FormatInt(10)>>

\* C20: no parameter of a URL get_url() returns has an empty value or an
\* empty key; a locale, measures, drilldowns, properties or filters that
\* are empty leave no parameter at all.
C20_NoEmptyValue ==
    (last.op = "get_url" /\ last.exc = "") =>
        LET query == Q(last.q) IN
        /\ \A i \in DOMAIN UrlPairs(last.val) :
            /\ UrlPairs(last.val)[i].val # <<>>
            /\ UrlPairs(last.val)[i].key # <<>>
        /\ query.locale \in {None, ""} => UrlValues(last.val, Chars["locale"]) = <<>>
        /\ query.measures = {} => UrlValues(last.val, Chars["measures"]) = <<>>
        /\ Len(query.filters) = 0 => UrlValues(last.val, Chars["filters"]) = <<>>
        /\ Len(query.drilldowns) = 0 =>
            /\ UrlValues(last.val, Chars["drilldowns"]) = <<>>
            /\ UrlValues(last.val, Chars["properties"]) = <<>>

\* a URL was returned for a query whose locale is the empty str and which
\* has no filters, no drilldowns and a measure
C20_Witness ==
    /\ last.op = "get_url" /\ last.exc = ""
    /\ Q(last.q).locale = ""
    /\ Len(Q(last.q).filters) = 0
    /\ Q(last.q).measures # {}

-----------------------------------------------------------------------------
(* Claims on the builder calls *)

\* the time of every query has both components None or neither
NeverHalfNone ==
    \A q \in QIds : Allocated(q) =>
        (queries[q].time[1] = None <=> queries[q].time[2] = None)

\* C21 as stated: after set_time(precision, value) the time is (precision,
\* value) when both are given and non-empty, and (None, None) when either
\* is missing or empty; no query has a time with one component set and the
\* other missing or empty.
C21_TimeNoneOrEmpty ==
    /\ last.op = "set_time" =>
        LET precision == last.args.precision
            value == last.args.time_value IN
        queries[last.q].time =
            IF precision \notin {None, ""} /\ value \notin {None, ""}
            THEN <<precision, value>> ELSE <<None, None>>
    /\ \A q \in QIds : Allocated(q) =>
        (queries[q].time[1] \in {None, ""} <=> queries[q].time[2] \in {None, ""})

\* C21 as amended: after set_time(precision, value) the time is (precision,
\* value) when neither is None, an empty str included, and (None, None)
\* when either is None; no query has a time with exactly one component None.
C21_TimeNone ==
    /\ last.op = "set_time" =>
        LET precision == last.args.precision
            value == last.args.time_value IN
        queries[last.q].time =
            IF precision # None /\ value # None
            THEN <<precision, value>> ELSE <<None, None>>
    /\ NeverHalfNone

\* set_time with a None component reset a time that an earlier call had set
C21_Witness ==
    /\ last.op = "set_time" /\ last.args.time_value = None
    /\ [op |-> "set_time", precision |-> "week", time_value |-> "oldest"]
            \in calls[last.q]
    /\ queries[last.q].time = <<None, None>>

\* the key a filter is stored under, as code points
FilterKeys(query) == [i \in DOMAIN query.filters |-> Chars[query.filters[i].key]]

\* the texts of the filters of a query, in the sorted order of their keys
TextsByKey(query) ==
    LET keys == sorted(FilterKeys(query)) IN
    [i \in DOMAIN keys |->
        FilterText(query.filters[CHOOSE j \in DOMAIN query.filters :
                                    Chars[query.filters[j].key] = keys[i]].val)]

\* a is b cut short
ProperPrefix(a, b) == Len(a) < Len(b) /\ SubSeq(b, 1, Len(a)) = a

\* C22 as stated: in every URL get_url() returns, the filters parameter
\* carries the serialized filters in the sorted order of their keys, the
\* value names set_filter stored them under.
C22_FiltersInKeyOrder ==
    (last.op = "get_url" /\ last.exc = "" /\ Len(Q(last.q).filters) > 0) =>
        UrlValues(last.val, Chars["filters"]) =
            <<quote_plus(join(Comma, TextsByKey(Q(last.q))))>>

\* C22 as amended: in every URL get_url() returns, the filters parameter
\* carries the serialized filters in the sorted order of their serialized
\* texts; that is the sorted order of their keys when no key is another
\* key cut short.
C22_FiltersInTextOrder ==
    (last.op = "get_url" /\ last.exc = "" /\ Len(Q(last.q).filters) > 0) =>
        LET query == Q(last.q)
            fs == DictValues(query.filters)
            texts == [i \in DOMAIN fs |-> FilterText(fs[i])]
            keys == FilterKeys(query) IN
        /\ UrlValues(last.val, Chars["filters"]) =
                <<quote_plus(join(Comma, sorted(texts)))>>
        /\ (\A i, j \in DOMAIN keys : ~ProperPrefix(keys[i], keys[j])) =>
                sorted(texts) = TextsByKey(query)

\* a URL was returned for a query with two filters stored in the order
\* opposite to that of their keys, neither key the other cut short
C22_Witness ==
    /\ last.op = "get_url" /\ last.exc = ""
    /\ Len(Q(last.q).filters) = 2
    /\ LET keys == FilterKeys(Q(last.q)) IN
        /\ LexLess(keys[2], keys[1])
        /\ ~ProperPrefix(keys[2], keys[1])

\* the set_filter calls made on q
FilterCalls(q) == {c \in calls[q] : c.op = "set_filter"}

\* C23: set_filter(value_ref, ...) stores one filter per value_ref, under
\* that name as key, bound to the cube's Measure of that name if there is
\* one and to the str otherwise; the filter holds the constraint1, joint and
\* constraint2 of the last call for its value_ref, None where that call
\* omitted them.
C23_FilterOverwritten ==
    \A q \in QIds : (Allocated(q) /\ IsCube(queries[q].cube)) =>
        LET filters == Q(q).filters IN
        /\ \A i, j \in DOMAIN filters : filters[i].key = filters[j].key => i = j
        /\ DictKeys(filters) = {c.value_ref : c \in FilterCalls(q)}
        /\ \A i \in DOMAIN filters :
            LET named == {m \in Range(cube.measures) : m.name = filters[i].key} IN
            filters[i].val.value =
                IF named # {} THEN [measure |-> CHOOSE m \in named : TRUE]
                ELSE [str |-> filters[i].key]
        /\ (last.q = q /\ last.op = "set_filter") =>
            LET filtr == DictGet(filters, last.args.value_ref) IN
            /\ filtr.constraint1 = last.args.condition1
            /\ filtr.joint = last.args.joint
            /\ filtr.constraint2 = last.args.condition2

\* a set_filter that omitted joint and condition2 followed one for the same
\* value_ref that gave them, and the query has one filter
C23_Witness ==
    /\ last.op = "set_filter"
    /\ last.args.joint = None /\ last.args.condition2 = <<>>
    /\ \E c \in FilterCalls(last.q) :
        /\ c.value_ref = last.args.value_ref
        /\ c.joint # None /\ c.condition2 # <<>>
        /\ c.condition1 # last.args.condition1
    /\ Len(Q(last.q).filters) = 1

-----------------------------------------------------------------------------
(* One query and its Drilldown slots *)

MaxDrillCalls == 5

DrillLevels == {"Year", "Continent", "Country"}

InitDrills == InitWith(Doc92)

NextDrills ==
    \/ NewTesseractQuery(1, cube)
    \/ steps < MaxDrillCalls /\ \E name \in DrillLevels : set_drilldown(1, name)
    \/ steps < MaxDrillCalls /\ set_property(1, "ISO 2")
    \/ steps < MaxDrillCalls /\ set_caption(1, "ISO 2")
    \/ steps < MaxDrillCalls /\ add_measure(1, "Quantity")
    \/ GetUrl(1, "logiclayer")
    \/ RaiseOnInvalid(1)

SpecDrills == InitDrills /\ [][NextDrills]_vars

\* C24: a set_drilldown that finds its level sets the level of the slot of
\* the level's dimension and nothing else: the properties and the caption
\* of that slot stay as set_property and set_caption left them, the slots
\* of the other dimensions are unchanged, and no slot is added but that of
\* the dimension.
C24_DrilldownKeepsSlot ==
    [][(last'.op = "set_drilldown" /\ steps' = steps + 1 /\ last'.exc = "") =>
        LET q == last'.q
            old == heap.drilldowns[queries[q].drilldowns]
            new == heap'.drilldowns[queries[q].drilldowns]
            level == get_level(cube, last'.args.level_name).val
            dim == level.dimension IN
        /\ DictKeys(new) = DictKeys(old) \cup {dim}
        /\ DictGet(new, dim).level = level
        /\ dim \in DictKeys(old) =>
            /\ DictGet(new, dim).properties = DictGet(old, dim).properties
            /\ DictGet(new, dim).caption = DictGet(old, dim).caption
        /\ \A k \in DictKeys(old) \ {dim} : DictGet(new, k) = DictGet(old, k)
        /\ queries' = queries]_vars

\* set_drilldown changed the level of a slot that carries a property and a
\* caption, while another dimension has a slot too
C24_Witness ==
    /\ last.op = "set_drilldown" /\ last.exc = ""
    /\ LET drilldowns == Q(last.q).drilldowns
           dim == get_level(cube, last.args.level_name).val.dimension IN
        /\ Len(drilldowns) = 2
        /\ DictGet(drilldowns, dim).properties # {}
        /\ DictGet(drilldowns, dim).caption # Unset
        /\ DictGet(drilldowns, dim).level.name = last.args.level_name
        /\ \E c \in LevelCalls(last.q, "set_drilldown") :
            /\ CallDimension(c) = dim
            /\ c.level_name # last.args.level_name

-----------------------------------------------------------------------------
(* Claims on the cube as built *)

\* C25: in the cube built from a document, every Hierarchy carries the name
\* of its Dimension, every Level the names of its Dimension and Hierarchy
\* and its 1-based position among the levels of its Hierarchy as depth,
\* and every Property the names of its Dimension, Hierarchy and Level; the
\* entities are those of the document, in its order.
C25_ParentsStamped ==
    /\ DOMAIN cube.dimensions = DOMAIN doc.dimensions
    /\ \A i \in DOMAIN cube.dimensions :
        LET dim == cube.dimensions[i]
            rawdim == doc.dimensions[i] IN
        /\ dim.name = rawdim.name
        /\ DOMAIN dim.hierarchies = DOMAIN rawdim.hierarchies
        /\ \A j \in DOMAIN dim.hierarchies :
            LET hie == dim.hierarchies[j]
                rawhie == rawdim.hierarchies[j] IN
            /\ hie.name = rawhie.name
            /\ hie.dimension = dim.name
            /\ DOMAIN hie.levels = DOMAIN rawhie.levels
            /\ \A k \in DOMAIN hie.levels :
                LET lvl == hie.levels[k]
                    rawlvl == rawhie.levels[k] IN
                /\ lvl.name = rawlvl.name
                /\ lvl.dimension = dim.name
                /\ lvl.hierarchy = hie.name
                /\ lvl.depth = k
                /\ DOMAIN lvl.properties = DOMAIN rawlvl.properties
                /\ \A l \in DOMAIN lvl.properties :
                    LET prop == lvl.properties[l] IN
                    /\ prop.name = rawlvl.properties[l].name
                    /\ prop.dimension = dim.name
                    /\ prop.hierarchy = hie.name
                    /\ prop.level = lvl.name

\* a lookup returned the second level of a hierarchy, which has a property
C25_Witness ==
    /\ last.op = "get_level" /\ last.exc = ""
    /\ last.val.depth = 2
    /\ last.val.properties # <<>>
    /\ last.val.properties[1].level = last.val.name
    /\ last.val.dimension # last.val.hierarchy

-----------------------------------------------------------------------------
(* One query, checked again and again *)

MaxCheckCalls == 3

\* the raise_on_invalid() calls made on q, each with the number of builder
\* calls before it and the exception it raised
ChecksOf(q) == {c \in calls[q] : c.op = "raise_on_invalid"}

\* a raise_on_invalid() that passed once and for all
CheckValidityOnce(q) ==
    /\ Allocated(q)
    /\ LET exc == IF \E c \in ChecksOf(q) : c.exc = "" THEN ""
                  ELSE raise_on_invalid(Q(q)) IN
        /\ last' = Outcome("raise_on_invalid", q, "", exc, NoVal)
        /\ calls' = [calls EXCEPT ![q] =
                        @ \cup {[op |-> "raise_on_invalid", at |-> steps,
                                 exc |-> exc]}]
    /\ UNCHANGED <<doc, cube, queries, heap, steps>>

\* query.raise_on_invalid(), its outcome noted among the calls made on q
CheckValidity(q) ==
    /\ Allocated(q)
    /\ LET exc == raise_on_invalid(Q(q)) IN
        /\ last' = Outcome("raise_on_invalid", q, "", exc, NoVal)
        /\ calls' = [calls EXCEPT ![q] =
                        @ \cup {[op |-> "raise_on_invalid", at |-> steps,
                                 exc |-> exc]}]
    /\ UNCHANGED <<doc, cube, queries, heap, steps>>

InitChecks == InitWith(Doc92)

NextChecks ==
    \/ NewTesseractQuery(1, cube)
    \/ steps < MaxCheckCalls /\ set_drilldown(1, "Year")
    \/ steps < MaxCheckCalls /\ \E name \in {"Quantity", "Trade Value"} :
            add_measure(1, name)
    \/ steps < MaxCheckCalls /\ \E ref \in {"Trade Value", "rate"} :
            set_filter(1, ref, <<"gt", 200>>, None, <<>>)
    \/ CheckValidity(1)

SpecChecks == InitChecks /\ [][NextChecks]_vars

\* the query has a drilldown and a measure, and the measure of every filter
\* bound to one
HasWhatItNeeds(query) ==
    /\ Len(query.drilldowns) > 0
    /\ query.measures # {}
    /\ \A f \in Range(DictValues(query.filters)) :
            "measure" \in DOMAIN f.value => f.value.measure \in query.measures

\* C26: raise_on_invalid() passes exactly when the query now has a
\* drilldown, a measure and the measure of every measure-bound filter,
\* whatever it did on earlier calls: it passes on a query it raised on
\* before, raises on a query it passed before, and repeats its outcome
\* while no builder call is made.
C26_ValidityNotRemembered ==
    \A q \in QIds : Allocated(q) =>
        /\ (last.q = q /\ last.op = "raise_on_invalid") =>
            /\ last.exc = (IF HasWhatItNeeds(Q(q)) THEN "" ELSE "InvalidQueryError")
            /\ [op |-> "raise_on_invalid", at |-> steps, exc |-> last.exc]
                    \in ChecksOf(q)
        /\ \A c \in ChecksOf(q) :
            /\ c.at = steps =>
                    c.exc = (IF HasWhatItNeeds(Q(q)) THEN "" ELSE "InvalidQueryError")
            /\ c.at = 0 => c.exc = "InvalidQueryError"
            /\ \A e \in ChecksOf(q) : e.at = c.at => e.exc = c.exc

\* raise_on_invalid() raised, passed after a drilldown and a measure were
\* added, and raises again after set_filter on a measure the query lacks
C26_Witness ==
    /\ last.op = "raise_on_invalid" /\ last.exc = "InvalidQueryError"
    /\ \E c1, c2 \in ChecksOf(last.q) :
        /\ c1.at < c2.at /\ c2.at < steps
        /\ c1.exc = "InvalidQueryError" /\ c2.exc = ""
    /\ Len(Q(last.q).drilldowns) > 0
    /\ Q(last.q).measures # {}
    /\ last.streak = 1

-----------------------------------------------------------------------------
(* One query and calls that name nothing in the cube *)

MaxFailingCalls == 3

\* a name of the cube and a name of nothing in it
MeasureRefs == {"Quantity", "invalid_name"}

LevelRefs == {"Country", "invalid_name"}

PropertyRefs == {"ISO 2", "invalid_name"}

InitFailing == InitWith(Doc92)

NextFailing ==
    \/ new_query(1)
    \/ NewTesseractQuery(1, cube)
    \/ steps < MaxFailingCalls /\ \E name \in MeasureRefs : add_measure(1, name)
    \/ steps < MaxFailingCalls /\ \E name \in LevelRefs :
            set_cut(1, name, <<"2019">>, "True", "None")
    \/ steps < MaxFailingCalls /\ \E name \in LevelRefs : set_drilldown(1, name)
    \/ steps < MaxFailingCalls /\ \E name \in PropertyRefs : set_caption(1, name)
    \/ steps < MaxFailingCalls /\ \E name \in PropertyRefs : set_property(1, name)
    \/ steps < MaxFailingCalls /\ \E name \in MeasureRefs :
            set_sorting(1, name, "asc")

SpecFailing == InitFailing /\ [][NextFailing]_vars

\* the name a builder call gives names something of its kind in the cube
Resolves(call) ==
    IF call.op = "add_measure"
    THEN \E m \in Range(cube.measures) : m.name = call.measure_name
    ELSE IF call.op = "set_sorting"
    THEN \E m \in Range(cube.measures) : m.name = call.sort_key
    ELSE IF call.op \in {"set_cut", "set_drilldown"}
    THEN \E l \in Range(levels(cube)) : l.name = call.level_name
    ELSE \E p \in Range(properties(cube)) : p.name = call.property_name

\* C27: add_measure, set_cut, set_drilldown, set_caption, set_property and
\* set_sorting raise the not-found error (StopIteration) exactly when the
\* name they are given names nothing in the cube, and then leave the query
\* as it was: its cuts, drilldowns, measures, sorting and all the rest.
C27_FailedCallChangesNothing ==
    [][(steps' = steps + 1) =>
        IF Resolves(last'.args) THEN last'.exc = ""
        ELSE /\ last'.exc = "StopIteration"
             /\ queries' = queries
             /\ heap' = heap]_vars

\* a call raised the not-found error on a query that has a cut and a sort key
C27_Witness ==
    /\ last.exc = "StopIteration"
    /\ last.op \in {"set_cut", "set_drilldown", "set_property", "set_caption"}
    /\ Len(Q(last.q).cuts) > 0
    /\ Q(last.q).sorting[1] # None

\* C28: every Drilldown slot of a query has a level, whose dimension is the
\* key of the slot, also when set_property or set_caption made the slot;
\* and get_url() on a query that raise_on_invalid() accepts returns a URL
\* that carries both drilldowns and measures.
C28_EverySlotHasLevel ==
    \A q \in QIds : Allocated(q) =>
        /\ \A i \in DOMAIN Q(q).drilldowns :
            /\ Q(q).drilldowns[i].val.level # Unset
            /\ Q(q).drilldowns[i].val.level.dimension = Q(q).drilldowns[i].key
        /\ (last.q = q /\ last.op = "get_url" /\ raise_on_invalid(Q(q)) = "") =>
            /\ last.exc = ""
            /\ UrlValues(last.val, Chars["drilldowns"]) # <<>>
            /\ UrlValues(last.val, Chars["measures"]) # <<>>

-----------------------------------------------------------------------------
(* Claims on the exclude parameter and on the keys of cuts *)

\* the names listed in the exclude parameter of a URL, percent-encoded
Excluded(url) ==
    LET exclude == UrlValues(url, Chars["exclude"]) IN
    IF exclude = <<>> THEN {}
    ELSE LET parts == SplitOn(exclude[1], 37) IN
         {parts[1]} \cup {SubSeq(parts[i], 3, Len(parts[i])) :
                            i \in {j \in DOMAIN parts : j > 1 /\
                                    SubSeq(parts[j], 1, 2) = <<50, 67>>}}

\* C29: get_url() returns a URL for a query with cuts, and every level the
\* exclude parameter of the URL names is also the key of a parameter of
\* that URL, the members of its cut; so it is for an exclusive cut that
\* set_cut made with no members.
C29_ExcludedHasMembers ==
    (/\ last.op = "get_url" /\ last.args = "logiclayer"
     /\ Q(last.q).class = "TesseractQuery"
     /\ Len(Q(last.q).drilldowns) = 0) =>
        /\ last.exc = ""
        /\ \A name \in Excluded(last.val) :
                \E i \in DOMAIN UrlPairs(last.val) : UrlPairs(last.val)[i].key = name

-----------------------------------------------------------------------------
(* One query on a cube with a level named as a parameter *)

MaxSiteCalls == 3

InitSite == InitWith(DocSite)

NextSite ==
    \/ NewTesseractQuery(1, cube)
    \/ steps < MaxSiteCalls /\ \E name \in {"locale", "Year"} :
            set_cut(1, name, <<"2019">>, "None", "None")
    \/ steps < MaxSiteCalls /\ \E locale \in {"es", "en"} : set_locale(1, locale)
    \/ steps < MaxSiteCalls /\ \E name \in {"Quantity", "Trade Value"} :
            add_measure(1, name)
    \/ steps < MaxSiteCalls /\ set_filter(1, "Quantity", <<"gt", 200>>, None, <<>>)
    \/ GetUrl(1, "logiclayer")

SpecSite == InitSite /\ [][NextSite]_vars

\* the URL carries a multi-valued parameter with these texts, or not at all
\* when there are none
Carries(url, key, texts) ==
    UrlValues(url, Chars[key]) =
        IF texts = {} THEN <<>>
        ELSE <<quote_plus(join(Comma, sorted(SetToSeq(texts))))>>

\* C30: get_url() returns a URL for every query, with cuts or without, in
\* which cube is the name of the cube and measures, filters and locale are
\* those of the query, also when a cut is on a level named as one of these
\* parameters.
C30_FixedParametersKept ==
    (/\ last.op = "get_url" /\ last.args = "logiclayer"
     /\ Q(last.q).class = "TesseractQuery"
     /\ Len(Q(last.q).drilldowns) = 0) =>
        LET query == Q(last.q) IN
        /\ last.exc = ""
        /\ UrlValues(last.val, Chars["cube"]) = <<quote_plus(Chars[cube.name])>>
        /\ Carries(last.val, "measures", {Chars[m.name] : m \in query.measures})
        /\ Carries(last.val, "filters",
                   {FilterText(f) : f \in Range(DictValues(query.filters))})
        /\ UrlValues(last.val, Chars["locale"]) =
                IF query.locale = None THEN <<>>
                ELSE <<quote_plus(Chars[query.locale])>>

====
